---- MODULE Spec2Model ----
\* Request dispatch core of the vayu web framework: route table, path matcher,
\* global middleware slice, chain executor, request context and response writer.
EXTENDS Integers, Sequences, FiniteSets, TLC

VARIABLES
    routes,          \* Router.routes: method -> sequence of [pattern, handler]
    heap,            \* backing arrays of []HandlerFunc slices, by array id
    middleware,      \* App.middleware: slice header [arr, len, cap]
    NotFoundHandler, \* App.NotFoundHandler
    serving,         \* TRUE once the App has been handed to the HTTP server
    pc,              \* per request: position of ServeHTTP
    reqMethod,       \* per request: r.Method
    reqPath,         \* per request: r.URL.Path
    handler,         \* per request: handler returned by matchRoute
    ctxParams,       \* per request: Context.Params
    mws,             \* per request: slice header of the chain built by append
    call,            \* per request: pending call exec(i), or NoCall
    stack,           \* per request: frames of the units currently running
    Stopped,         \* per request: Context.Stopped
    ctxDone,         \* per request: ctx.Ctx.Done() is closed
    expiredAtStart,  \* per request: the inbound scope was done at dispatch
    released,        \* per request: cancel() of the derived scope was called
    written,         \* per request: ResponseWriter.written
    status,          \* per request: ResponseWriter.status
    twStatus,        \* per request: status committed by the transport writer
    trace,           \* per request: events recorded during dispatch
    store,           \* per request: Context.store
    got,             \* per request: what the last Get or GetValue returned
    setLog,          \* per request: the Set calls made so far, in order
    scopes,          \* per request: the scopes derived by Context.WithTimeout
    SilentMode,      \* the package variable SilentMode
    Args0            \* os.Args[0], the name the program was started with

vars == <<routes, heap, middleware, NotFoundHandler, serving, pc, reqMethod,
          reqPath, handler, ctxParams, mws, call, stack, Stopped, ctxDone,
          expiredAtStart, released, written, status, twStatus, trace,
          store, got, setLog, scopes, SilentMode, Args0>>

appVars == <<routes, heap, middleware, NotFoundHandler, serving>>
reqVars == <<pc, reqMethod, reqPath, handler, ctxParams, mws, call, stack,
             Stopped, ctxDone, expiredAtStart, released, written, status,
             twStatus, trace, store, got, setLog>>
storeVars == <<store, got, setLog>>
envVars == <<SilentMode, Args0>>

\* ---------------------------------------------------------------- bounds

\* Largest number of global middleware registered in the single-request model.
MaxMw == 2
\* Largest number of global middleware registered in the concurrent model.
MaxMwConc == 3
\* Largest number of routes registered in the single-request model.
MaxRoutes == 1
\* Largest number of routes registered in the concurrent model.
MaxRoutesConc == 2

\* The requests in flight on one App.
Reqs == {1, 2}

\* ------------------------------------------------------- program constants

StatusOK == 200
StatusUnauthorized == 401
StatusNotFound == 404
StatusInternalServerError == 500
StatusGatewayTimeout == 504

\* ------------------------------------------------------------ unit values

\* A HandlerFunc value: who it is and the operations its body performs.
Op(o, a) == [op |-> o, arg |-> a]
Unit(k, n, s) == [kind |-> k, n |-> n, script |-> s]
NilFunc == Unit("nil", 0, <<>>)

\* Middleware bodies.
Wrap == <<Op("mark", 0), Op("next", 0), Op("mark", 0)>>
Deny == <<Op("send", StatusUnauthorized)>>
StopNext == <<Op("stop", 0), Op("next", 0)>>
Twice == <<Op("next", 0), Op("next", 0)>>
PassOn == <<Op("next", 0)>>
Thrice == <<Op("next", 0), Op("next", 0), Op("next", 0)>>
MwScripts == {Wrap, Deny, StopNext, Twice}

\* A middleware that bounds the rest of the request with Context.WithTimeout
\* and goes on.
MwTimeout == <<Op("timeout", 0), Op("next", 0)>>

\* Route handler bodies.
Plain == <<Op("mark", 0), Op("send", StatusOK)>>
HNext == <<Op("send", StatusOK), Op("next", 0)>>
HPanic == <<Op("panic", 0)>>
HScripts == {Plain, HNext, HPanic}

\* Error handlers: the nil argument, DefaultErrorHandler, and the handler of
\* TestErrorHandlerMiddleware; RecoveryFn is the deferred function of Recovery.
EhNil == 0
EhDefault == 1
EhCustom == 2
RecoveryFn == 3

\* ErrorHandlerMiddleware(errorHandler): nil is replaced by DefaultErrorHandler;
\* the body defers the recovering function and calls next().
ErrorHandlerMiddleware(errorHandler) ==
    <<Op("defer", IF errorHandler = EhNil THEN EhDefault ELSE errorHandler),
      Op("next", 0)>>

\* WithErrorHandling(handler, errorHandler): nil is replaced by
\* DefaultErrorHandler; the body defers the recovering function and runs the
\* handler with the unit's own continuation.
WithErrorHandling(h, errorHandler) ==
    <<Op("defer", IF errorHandler = EhNil THEN EhDefault ELSE errorHandler)>> \o h

\* Recovery(): the body defers its recovering function and calls next().
Recovery == <<Op("defer", RecoveryFn), Op("next", 0)>>

\* Panic values: a value that is no error (a string), and an error value.
\* An odd number v stands for an error, v - 1 for the value it was made from.
PanicString == 0
PanicError == 1

\* err, ok := r.(error); if !ok { err = fmt.Errorf("%v", r) }
ToError(v) == IF v % 2 = 1 THEN v ELSE v + 1

\* Bodies that panic: a middleware, a handler panicking with an error value,
\* a handler that has sent a response before it panics.
MwPanic == <<Op("mark", 0), Op("panic", PanicString)>>
HPanicErr == <<Op("panic", PanicError)>>
WritePanic == <<Op("send", StatusOK), Op("panic", PanicString)>>

\* The middleware registered by App.Static: serve the file when the path has
\* the route prefix and return, else call next().
StaticMw == <<Op("static", 0), Op("next", 0)>>

\* The middleware registered by Group.Use(mw): call mw(c, next) when the path
\* has the group's prefix, else call next().
GroupGuard(script) == <<Op("group", 0)>> \o script

\* WithMiddleware(handler, middlewares...): a unit whose body runs the chain
\* full = append(middlewares, handler) with an executor of its own.
WithMiddleware(h, middlewares) ==
    <<Op("with", Append(middlewares, h))>>

\* Not-found handler bodies: the one installed by New, and a custom one.
DefaultNotFound == Unit("nf", 0, <<Op("wh", StatusNotFound), Op("write", 0)>>)
CustomNotFound == Unit("nf", 1, <<Op("mark", 0), Op("next", 0)>>)
PanicNotFound == Unit("nf", 2, <<Op("mark", 0), Op("panic", PanicString)>>)

\* ------------------------------------------------------------ strings

\* A string is a sequence of one-character strings.
PathA == <<"/", "a">>
PathB == <<"/", "b">>
Methods == {"GET", "POST"}

\* The methods App has a registration function for.
AllMethods == {"GET", "POST", "PUT", "DELETE", "PATCH", "OPTIONS", "HEAD"}
Paths == {PathA, PathB}

\* The route prefix given to App.Static, and the paths requested with it.
StaticPrefix == <<"/", "s">>
PathS == <<"/", "s", "/", "x">>
StaticPaths == {PathA, PathS}

\* The prefix given to App.Group, the path a group route is registered with,
\* and the paths requested: outside the prefix, under it as a directory and
\* under it as a string only.
GroupPrefix == <<"/", "g">>
PathX == <<"/", "x">>
PathGX == GroupPrefix \o PathX
PathGa == <<"/", "g", "a">>
GroupPaths == {PathA, PathGX, PathGa}

\* Program names: a test binary as go test builds it, and a server binary.
ProgTest == <<"u", "n", "i", "t", ".", "t", "e", "s", "t">>
ProgServer == <<"v", "a", "y", "u">>
ProgNames == {ProgTest, ProgServer}

\* strings.Contains(s, substr)
Contains(s, substr) ==
    \E i \in 1..(Len(s) - Len(substr) + 1) : SubSeq(s, i, i + Len(substr) - 1) = substr

\* strings.HasPrefix(s, prefix)
HasPrefix(s, prefix) ==
    Len(s) >= Len(prefix) /\ SubSeq(s, 1, Len(prefix)) = prefix

RECURSIVE TrimLeft(_, _)
TrimLeft(s, c) ==
    IF s # <<>> /\ Head(s) = c THEN TrimLeft(Tail(s), c) ELSE s

RECURSIVE TrimRight(_, _)
TrimRight(s, c) ==
    IF s # <<>> /\ s[Len(s)] = c THEN TrimRight(SubSeq(s, 1, Len(s) - 1), c) ELSE s

\* strings.Trim(p, "/")
Trim(s, c) == TrimRight(TrimLeft(s, c), c)

\* strings.Split(s, sep) for a one-character separator; s is not empty.
RECURSIVE Split(_, _)
Split(s, c) ==
    IF \E i \in 1..Len(s) : s[i] = c
    THEN LET i == CHOOSE j \in 1..Len(s) :
                      s[j] = c /\ \A k \in 1..(j - 1) : s[k] # c
         IN <<SubSeq(s, 1, i - 1)>> \o Split(SubSeq(s, i + 1, Len(s)), c)
    ELSE <<s>>

\* splitPath that trims the leading separators only.
splitPathLeft(p) ==
    LET t == TrimLeft(p, "/")
    IN IF t = <<>> THEN <<>> ELSE Split(t, "/")

splitPath(p) ==
    LET t == Trim(p, "/")
    IN IF t = <<>> THEN <<>> ELSE Split(t, "/")

\* ------------------------------------------------------------ maps

\* A Go map[string]string: nil or a finite function from keys to values.
NilMap == [isNil |-> TRUE, kv |-> <<>>]
EmptyMap == [isNil |-> FALSE, kv |-> <<>>]
MapPut(m, k, v) ==
    [isNil |-> FALSE,
     kv |-> [x \in (DOMAIN m.kv) \cup {k} |-> IF x = k THEN v ELSE m.kv[x]]]

\* ------------------------------------------------------------ store

\* Values held in an interface{}: the nil interface, or a value of a
\* dynamic type.
NilValue == [t |-> "nil", v |-> 0]
Types == {"int", "string"}
Typed(T) == {[t |-> T, v |-> x] : x \in {0, 1}}
Values == {NilValue} \cup UNION {Typed(T) : T \in Types}
Keys == {"user", "id"}

\* var zero T
Zero(T) == [t |-> T, v |-> 0]

\* Context.store before the first Set: a nil map[string]interface{}.
NilStore == NilMap

\* Nothing has been read from the store yet.
NoResult == [op |-> "none", key |-> "", T |-> "", val |-> NilValue, ok |-> FALSE, at |-> 0]

\* Set that keeps the value a key already has.
StoreSetKeep(s, key, value) ==
    IF ~s.isNil /\ key \in DOMAIN s.kv THEN s ELSE MapPut(s, key, value)

\* Context.Set(key, value): allocate the map on first use, then store.
StoreSet(s, key, value) == MapPut(IF s.isNil THEN EmptyMap ELSE s, key, value)

\* Context.Get(key): (nil, false) on a nil map or a missing key.
StoreGet(s, key) ==
    IF s.isNil THEN [val |-> NilValue, ok |-> FALSE]
    ELSE IF key \in DOMAIN s.kv THEN [val |-> s.kv[key], ok |-> TRUE]
         ELSE [val |-> NilValue, ok |-> FALSE]

\* GetValue[T](c, key): Get, then the type assertion val.(T).
StoreGetValue(s, T, key) ==
    LET g == StoreGet(s, key)
    IN IF ~g.ok THEN [val |-> Zero(T), ok |-> FALSE]
       ELSE IF g.val.t = T THEN [val |-> g.val, ok |-> TRUE]
            ELSE [val |-> Zero(T), ok |-> FALSE]

\* ------------------------------------------------------------ matcher

HasParamPrefix(seg) == seg # <<>> /\ Head(seg) = ":"

\* strings.ToLower on the characters of a segment.
Lower(seg) == [j \in 1..Len(seg) |-> IF seg[j] = "A" THEN "a" ELSE seg[j]]

\* matchSegments comparing literal segments without regard to case.
RECURSIVE matchSegmentsFold(_, _, _, _)
matchSegmentsFold(patternParts, pathParts, i, params) ==
    IF i > Len(patternParts) THEN [match |-> TRUE, params |-> params]
    ELSE IF HasParamPrefix(patternParts[i])
         THEN matchSegmentsFold(patternParts, pathParts, i + 1,
                                MapPut(params, Tail(patternParts[i]), pathParts[i]))
         ELSE IF Lower(patternParts[i]) # Lower(pathParts[i])
              THEN [match |-> FALSE, params |-> params]
              ELSE matchSegmentsFold(patternParts, pathParts, i + 1, params)

\* matchSegments that keeps the first binding of a parameter name.
RECURSIVE matchSegmentsFirst(_, _, _, _)
matchSegmentsFirst(patternParts, pathParts, i, params) ==
    IF i > Len(patternParts) THEN [match |-> TRUE, params |-> params]
    ELSE IF HasParamPrefix(patternParts[i])
         THEN matchSegmentsFirst(patternParts, pathParts, i + 1,
                  IF Tail(patternParts[i]) \in DOMAIN params.kv THEN params
                  ELSE MapPut(params, Tail(patternParts[i]), pathParts[i]))
         ELSE IF patternParts[i] # pathParts[i]
              THEN [match |-> FALSE, params |-> params]
              ELSE matchSegmentsFirst(patternParts, pathParts, i + 1, params)

\* The inner loop of matchRoute over segments i..n: [match, params].
RECURSIVE matchSegments(_, _, _, _)
matchSegments(patternParts, pathParts, i, params) ==
    IF i > Len(patternParts) THEN [match |-> TRUE, params |-> params]
    ELSE IF HasParamPrefix(patternParts[i])
         THEN matchSegments(patternParts, pathParts, i + 1,
                            MapPut(params, Tail(patternParts[i]), pathParts[i]))
         ELSE IF patternParts[i] # pathParts[i]
              THEN [match |-> FALSE, params |-> params]
              ELSE matchSegments(patternParts, pathParts, i + 1, params)

\* matchFrom that keeps scanning after a match: the last matching route wins.
RECURSIVE matchFromLast(_, _, _)
matchFromLast(rs, path, k) ==
    IF k > Len(rs) THEN [handler |-> NilFunc, params |-> NilMap]
    ELSE LET patternParts == splitPath(rs[k].pattern)
             pathParts == splitPath(path)
             later == matchFromLast(rs, path, k + 1)
         IN IF later.handler # NilFunc THEN later
            ELSE IF Len(patternParts) # Len(pathParts) THEN later
            ELSE LET m == matchSegments(patternParts, pathParts, 1, EmptyMap)
                 IN IF m.match
                    THEN [handler |-> rs[k].handler, params |-> m.params]
                    ELSE later

\* The outer loop of matchRoute over the routes k.. of one method.
RECURSIVE matchFrom(_, _, _)
matchFrom(rs, path, k) ==
    IF k > Len(rs) THEN [handler |-> NilFunc, params |-> NilMap]
    ELSE LET patternParts == splitPath(rs[k].pattern)
             pathParts == splitPath(path)
         IN IF Len(patternParts) # Len(pathParts)
            THEN matchFrom(rs, path, k + 1)
            ELSE LET m == matchSegments(patternParts, pathParts, 1, EmptyMap)
                 IN IF m.match
                    THEN [handler |-> rs[k].handler, params |-> m.params]
                    ELSE matchFrom(rs, path, k + 1)

RoutesOf(rt, method) == IF method \in DOMAIN rt THEN rt[method] ELSE <<>>

\* matchFrom with one parameter map made before the loop over the routes
\* and handed from each route to the next.
RECURSIVE matchFromShared(_, _, _, _)
matchFromShared(rs, path, k, params) ==
    IF k > Len(rs) THEN [handler |-> NilFunc, params |-> NilMap]
    ELSE LET patternParts == splitPath(rs[k].pattern)
             pathParts == splitPath(path)
         IN IF Len(patternParts) # Len(pathParts)
            THEN matchFromShared(rs, path, k + 1, params)
            ELSE LET m == matchSegments(patternParts, pathParts, 1, params)
                 IN IF m.match
                    THEN [handler |-> rs[k].handler, params |-> m.params]
                    ELSE matchFromShared(rs, path, k + 1, m.params)

\* matchRoute that keeps the bindings made for the routes it rejected.
matchRouteShared(rt, method, path) ==
    matchFromShared(RoutesOf(rt, method), path, 1, EmptyMap)

\* matchRoute that falls back to the GET routes when the method has no match.
matchRouteFallback(rt, method, path) ==
    LET m == matchFrom(RoutesOf(rt, method), path, 1)
    IN IF m.handler # NilFunc THEN m ELSE matchFrom(RoutesOf(rt, "GET"), path, 1)

matchRoute(rt, method, path) == matchFrom(RoutesOf(rt, method), path, 1)

\* ------------------------------------------------------------ slices

NilSlice == [arr |-> 0, len |-> 0, cap |-> 0]

\* Capacity chosen by append when the backing array is full.
GrowCap(oldCap, newLen) ==
    IF newLen > 2 * oldCap THEN newLen ELSE 2 * oldCap

\* append(sl, x): in place when the backing array has room, else a copy
\* into a fresh array. Returns the new heap and the resulting slice header.
SliceAppend(h, sl, x) ==
    IF sl.len < sl.cap
    THEN [heap |-> [h EXCEPT ![sl.arr][sl.len + 1] = x],
          sl |-> [sl EXCEPT !.len = sl.len + 1]]
    ELSE LET newCap == GrowCap(sl.cap, sl.len + 1)
             arr == [j \in 1..newCap |->
                        IF j <= sl.len THEN h[sl.arr][j]
                        ELSE IF j = sl.len + 1 THEN x ELSE NilFunc]
         IN [heap |-> Append(h, arr),
             sl |-> [arr |-> Len(h) + 1, len |-> sl.len + 1, cap |-> newCap]]

SliceAt(h, sl, i) == h[sl.arr][i + 1]

\* The units of a slice, in order.
SliceSeq(h, sl) == [j \in 1..sl.len |-> h[sl.arr][j]]

\* ------------------------------------------------------------ setup

NoCall == -1

\* New(): empty router, no middleware, the default 404 handler; no request
\* has arrived.
InitApp ==
    /\ routes = [m \in AllMethods |-> <<>>]
    /\ heap = <<>>
    /\ middleware = NilSlice
    /\ NotFoundHandler = DefaultNotFound
    /\ serving = FALSE
    /\ pc = [r \in Reqs |-> "idle"]
    /\ reqMethod = [r \in Reqs |-> "GET"]
    /\ reqPath = [r \in Reqs |-> <<>>]
    /\ handler = [r \in Reqs |-> NilFunc]
    /\ ctxParams = [r \in Reqs |-> EmptyMap]
    /\ mws = [r \in Reqs |-> NilSlice]
    /\ call = [r \in Reqs |-> NoCall]
    /\ stack = [r \in Reqs |-> <<>>]
    /\ Stopped = [r \in Reqs |-> FALSE]
    /\ ctxDone = [r \in Reqs |-> FALSE]
    /\ expiredAtStart = [r \in Reqs |-> FALSE]
    /\ released = [r \in Reqs |-> FALSE]
    /\ written = [r \in Reqs |-> FALSE]
    /\ status = [r \in Reqs |-> 0]
    /\ twStatus = [r \in Reqs |-> 0]
    /\ trace = [r \in Reqs |-> <<>>]
    /\ store = [r \in Reqs |-> NilStore]
    /\ got = [r \in Reqs |-> NoResult]
    /\ setLog = [r \in Reqs |-> <<>>]
    /\ scopes = [r \in Reqs |-> <<>>]

\* The process at start: SilentMode has the zero value of its declaration,
\* the program is a test binary.
Init ==
    /\ InitApp
    /\ SilentMode = ""
    /\ Args0 = ProgTest

\* App.Use(mw): append to the global middleware slice and store it back.
Use(script, max) ==
    /\ middleware.len < max
    /\ LET mw == Unit("mw", middleware.len + 1, script)
           res == SliceAppend(heap, middleware, mw)
       IN /\ heap' = res.heap
          /\ middleware' = res.sl
    /\ UNCHANGED <<routes, NotFoundHandler, serving>>
    /\ UNCHANGED reqVars
    /\ UNCHANGED envVars
    /\ UNCHANGED scopes

\* The number of routes in the table rt, over all methods.
RECURSIVE CountRoutes(_, _)
CountRoutes(rt, ms) ==
    IF ms = {} THEN 0
    ELSE LET m == CHOOSE x \in ms : TRUE
         IN Len(rt[m]) + CountRoutes(rt, ms \ {m})
RouteCount == CountRoutes(routes, AllMethods)

\* addRoute that puts the new route in front of the method's list.
addRoutePrepend(method, path, script, max) ==
    /\ RouteCount < max
    /\ routes' = [routes EXCEPT ![method] =
                      <<[pattern |-> path,
                         handler |-> Unit("h", RouteCount + 1, script)]>> \o @]
    /\ UNCHANGED <<heap, middleware, NotFoundHandler, serving>>
    /\ UNCHANGED reqVars
    /\ UNCHANGED envVars
    /\ UNCHANGED scopes

\* App.addRoute(method, path, handler).
addRoute(method, path, script, max) ==
    /\ RouteCount < max
    /\ LET n == RouteCount + 1
       IN routes' = [routes EXCEPT ![method] =
                        Append(@, [pattern |-> path, handler |-> Unit("h", n, script)])]
    /\ UNCHANGED <<heap, middleware, NotFoundHandler, serving>>
    /\ UNCHANGED reqVars
    /\ UNCHANGED envVars
    /\ UNCHANGED scopes

\* App.GET(path, handler).
GET(path, script, max) == addRoute("GET", path, script, max)

\* App.POST(path, handler).
POST(path, script, max) == addRoute("POST", path, script, max)

\* App.PUT(path, handler).
PUT(path, script, max) == addRoute("PUT", path, script, max)

\* App.DELETE(path, handler).
DELETE(path, script, max) == addRoute("DELETE", path, script, max)

\* App.PATCH(path, handler).
PATCH(path, script, max) == addRoute("PATCH", path, script, max)

\* App.OPTIONS(path, handler).
OPTIONS(path, script, max) == addRoute("OPTIONS", path, script, max)

\* App.HEAD(path, handler).
HEAD(path, script, max) == addRoute("HEAD", path, script, max)

\* App.Static(routePrefix, dir): a.Use of the static middleware.
Static(max) == Use(StaticMw, max)

\* Group.Use(mw): g.app.Use of the prefix guard around mw.
GroupUse(script, max) == Use(GroupGuard(script), max)

\* Group.GET(path, handler): g.app.GET(g.prefix+path, handler).
GroupGET(path, script, max) == GET(GroupPrefix \o path, script, max)

\* Group.POST(path, handler): g.app.POST(g.prefix+path, handler).
GroupPOST(path, script, max) == POST(GroupPrefix \o path, script, max)

\* vayu.SilentMode = v: an assignment to the package variable.
SetSilentMode(v) ==
    /\ SilentMode' = v
    /\ UNCHANGED Args0
    /\ UNCHANGED appVars
    /\ UNCHANGED reqVars
    /\ UNCHANGED scopes

\* App.SetNotFoundHandler(handler).
SetNotFoundHandler(h) ==
    /\ NotFoundHandler' = h
    /\ UNCHANGED <<routes, heap, middleware, serving>>
    /\ UNCHANGED reqVars
    /\ UNCHANGED envVars
    /\ UNCHANGED scopes

\* App.Listen(addr): the App is handed to the HTTP server, which calls
\* ServeHTTP from now on. The registration calls themselves have no
\* precondition; a specification that writes ~serving in front of one keeps
\* it to the set-up of the App, before the server starts.
Listen ==
    /\ ~serving
    /\ serving' = TRUE
    /\ UNCHANGED <<routes, heap, middleware, NotFoundHandler>>
    /\ UNCHANGED reqVars
    /\ UNCHANGED envVars
    /\ UNCHANGED scopes

\* ------------------------------------------------------------ writer

\* ResponseWriter.WriteHeader(code), forwarded to the transport writer, which
\* commits the first status it is given.
WriterWriteHeader(r, code) ==
    /\ status' = [status EXCEPT ![r] = code]
    /\ written' = [written EXCEPT ![r] = TRUE]
    /\ twStatus' = [twStatus EXCEPT ![r] = IF @ = 0 THEN code ELSE @]

\* WriterWrite that forwards the bytes without setting the written flag.
WriterWriteNoFlag(r) ==
    /\ twStatus' = [twStatus EXCEPT ![r] = IF @ = 0 THEN StatusOK ELSE @]
    /\ UNCHANGED <<written, status>>

\* ResponseWriter.Write(b), forwarded to the transport writer, which commits
\* status 200 when nothing was committed before.
WriterWrite(r) ==
    /\ written' = [written EXCEPT ![r] = TRUE]
    /\ twStatus' = [twStatus EXCEPT ![r] = IF @ = 0 THEN StatusOK ELSE @]
    /\ UNCHANGED status

\* No request is being served: what is shared between goroutines, the
\* middleware list, the route table, NotFoundHandler and SilentMode, is
\* written without a lock, and the specifications write it at such moments.
Quiet == \A r \in Reqs : pc[r] \in {"idle", "done", "panicked"}

\* ------------------------------------------------------------ dispatch

\* An event: what happened, to which unit, at which position of the chain
\* (-1 outside the chain).
Event(e, u, i) == <<e, u.kind, u.n, i>>
Log(r, ev) == trace' = [trace EXCEPT ![r] = Append(@, ev)]

\* ServeHTTP up to the call exec(0): derive the scope, build the context,
\* match the route, build the chain.
Dispatch(r, method, path, expired) ==
    /\ serving
    /\ pc[r] = "idle"
    /\ reqMethod' = [reqMethod EXCEPT ![r] = method]
    /\ reqPath' = [reqPath EXCEPT ![r] = path]
    /\ ctxDone' = [ctxDone EXCEPT ![r] = expired]
    /\ expiredAtStart' = [expiredAtStart EXCEPT ![r] = expired]
    /\ LET m == matchRoute(routes, method, path)
       IN /\ handler' = [handler EXCEPT ![r] = m.handler]
          /\ IF m.handler = NilFunc
             THEN /\ pc' = [pc EXCEPT ![r] = "notfound"]
                  /\ UNCHANGED <<ctxParams, heap, mws, call>>
             ELSE LET res == SliceAppend(heap, middleware, m.handler)
                  IN /\ pc' = [pc EXCEPT ![r] = "run"]
                     /\ ctxParams' = [ctxParams EXCEPT ![r] = m.params]
                     /\ heap' = res.heap
                     /\ mws' = [mws EXCEPT ![r] = res.sl]
                     /\ call' = [call EXCEPT ![r] = 0]
    /\ store' = [store EXCEPT ![r] = NilStore]
    /\ scopes' = [scopes EXCEPT ![r] = <<>>]
    /\ UNCHANGED envVars
    /\ UNCHANGED <<routes, middleware, NotFoundHandler, serving, stack, Stopped,
                   released, written, status, twStatus, trace, got, setLog>>

\* InvokeNotFound that runs the not-found handler at the end of the global
\* middleware chain.
InvokeNotFoundInChain(r) ==
    /\ pc[r] = "notfound"
    /\ NotFoundHandler # NilFunc
    /\ pc' = [pc EXCEPT ![r] = "run"]
    /\ LET res == SliceAppend(heap, middleware, NotFoundHandler)
       IN /\ heap' = res.heap
          /\ mws' = [mws EXCEPT ![r] = res.sl]
    /\ call' = [call EXCEPT ![r] = 0]
    /\ UNCHANGED <<routes, middleware, NotFoundHandler, serving>>
    /\ UNCHANGED envVars
    /\ UNCHANGED storeVars
    /\ UNCHANGED scopes
    /\ UNCHANGED <<reqMethod, reqPath, handler, ctxParams, stack, Stopped, ctxDone,
                   expiredAtStart, released, written, status, twStatus, trace>>

\* ServeHTTP, no route matched: a.NotFoundHandler(ctx, func() {}).
InvokeNotFound(r) ==
    /\ pc[r] = "notfound"
    /\ NotFoundHandler # NilFunc
    /\ pc' = [pc EXCEPT ![r] = "run"]
    /\ stack' = [stack EXCEPT ![r] = <<[unit |-> NotFoundHandler, ip |-> 1, i |-> -1]>>]
    /\ Log(r, Event("start", NotFoundHandler, -1))
    /\ UNCHANGED appVars
    /\ UNCHANGED envVars
    /\ UNCHANGED storeVars
    /\ UNCHANGED scopes
    /\ UNCHANGED <<reqMethod, reqPath, handler, ctxParams, mws, call, Stopped,
                   ctxDone, expiredAtStart, released, written, status, twStatus>>

\* ServeHTTP, no route matched and no NotFoundHandler: http.NotFound(w, r)
\* writes 404 straight to the transport writer.
HttpNotFound(r) ==
    /\ pc[r] = "notfound"
    /\ NotFoundHandler = NilFunc
    /\ pc' = [pc EXCEPT ![r] = "run"]
    /\ twStatus' = [twStatus EXCEPT ![r] = IF @ = 0 THEN StatusNotFound ELSE @]
    /\ Log(r, <<"http.NotFound", "nil", 0, -1>>)
    /\ UNCHANGED appVars
    /\ UNCHANGED envVars
    /\ UNCHANGED storeVars
    /\ UNCHANGED scopes
    /\ UNCHANGED <<reqMethod, reqPath, handler, ctxParams, mws, call, stack,
                   Stopped, ctxDone, expiredAtStart, released, written, status>>

\* The scope derived by the k-th WithTimeout of request r is done: an
\* ancestor scope is done, its own timer or that of an earlier derived scope
\* has fired, or ServeHTTP has released the request's scope.
ScopeDone(r, k) ==
    \/ ctxDone[r]
    \/ released[r]
    \/ \E j \in 1..k : scopes[r][j].fired

\* An executor that keeps testing the scope ServeHTTP derived, whatever
\* scope Context.Ctx holds.
CtxDoneOriginal(r) == ctxDone[r]

\* ctx.Ctx.Done() is closed: Context.Ctx is the request's scope or the last
\* scope derived from it by WithTimeout.
CtxDone(r) == ctxDone[r] \/ \E k \in 1..Len(scopes[r]) : scopes[r][k].fired

\* ExecTimeout that gives up the whole chain: the units still running are
\* abandoned instead of being returned to.
ExecTimeoutAbort(r) ==
    /\ pc[r] = "run"
    /\ call[r] # NoCall
    /\ CtxDone(r)
    /\ WriterWriteHeader(r, StatusGatewayTimeout)
    /\ call' = [call EXCEPT ![r] = NoCall]
    /\ stack' = [stack EXCEPT ![r] = <<>>]
    /\ Log(r, <<"timeout", "exec", 0, call[r]>>)
    /\ UNCHANGED appVars
    /\ UNCHANGED envVars
    /\ UNCHANGED storeVars
    /\ UNCHANGED scopes
    /\ UNCHANGED <<pc, reqMethod, reqPath, handler, ctxParams, mws,
                   Stopped, ctxDone, expiredAtStart, released>>

\* ExecTimeout that returns without writing the timeout status.
ExecTimeoutSilent(r) ==
    /\ pc[r] = "run"
    /\ call[r] # NoCall
    /\ CtxDone(r)
    /\ call' = [call EXCEPT ![r] = NoCall]
    /\ Log(r, <<"timeout", "exec", 0, call[r]>>)
    /\ UNCHANGED appVars
    /\ UNCHANGED envVars
    /\ UNCHANGED storeVars
    /\ UNCHANGED scopes
    /\ UNCHANGED <<pc, reqMethod, reqPath, handler, ctxParams, mws, stack,
                   Stopped, ctxDone, expiredAtStart, released, written, status,
                   twStatus>>

\* ExecTimeout that writes 504 only when a unit was waiting to start.
ExecTimeoutUnitsOnly(r) ==
    /\ pc[r] = "run"
    /\ call[r] # NoCall
    /\ CtxDone(r)
    /\ IF call[r] < mws[r].len
       THEN /\ WriterWriteHeader(r, StatusGatewayTimeout)
            /\ Log(r, <<"timeout", "exec", 0, call[r]>>)
       ELSE UNCHANGED <<written, status, twStatus, trace>>
    /\ call' = [call EXCEPT ![r] = NoCall]
    /\ UNCHANGED appVars
    /\ UNCHANGED envVars
    /\ UNCHANGED storeVars
    /\ UNCHANGED scopes
    /\ UNCHANGED <<pc, reqMethod, reqPath, handler, ctxParams, mws, stack,
                   Stopped, ctxDone, expiredAtStart, released>>

\* exec(i), case <-ctx.Ctx.Done(): write 504 and return.
ExecTimeout(r) ==
    /\ pc[r] = "run"
    /\ call[r] # NoCall
    /\ CtxDone(r)
    /\ WriterWriteHeader(r, StatusGatewayTimeout)
    /\ call' = [call EXCEPT ![r] = NoCall]
    /\ Log(r, <<"timeout", "exec", 0, call[r]>>)
    /\ UNCHANGED appVars
    /\ UNCHANGED envVars
    /\ UNCHANGED storeVars
    /\ UNCHANGED scopes
    /\ UNCHANGED <<pc, reqMethod, reqPath, handler, ctxParams, mws, stack,
                   Stopped, ctxDone, expiredAtStart, released>>

\* ExecInvoke in an executor that runs each position of the chain at most
\* once: a repeated exec(i) returns without invoking the unit.
ExecInvokeOnce(r) ==
    /\ pc[r] = "run"
    /\ call[r] # NoCall
    /\ ~CtxDone(r)
    /\ call[r] < mws[r].len /\ ~Stopped[r]
    /\ LET u == SliceAt(heap, mws[r], call[r])
           seen == \E k \in 1..Len(trace[r]) :
                       trace[r][k][1] = "start" /\ trace[r][k][4] = call[r]
       IN IF seen
          THEN UNCHANGED <<stack, trace>>
          ELSE /\ stack' = [stack EXCEPT ![r] = Append(@, [unit |-> u, ip |-> 1, i |-> call[r]])]
               /\ Log(r, Event("start", u, call[r]))
    /\ call' = [call EXCEPT ![r] = NoCall]
    /\ UNCHANGED appVars
    /\ UNCHANGED envVars
    /\ UNCHANGED storeVars
    /\ UNCHANGED scopes
    /\ UNCHANGED <<pc, reqMethod, reqPath, handler, ctxParams, mws, Stopped,
                   ctxDone, expiredAtStart, released, written, status, twStatus>>

\* ExecInvoke without the !ctx.Stopped test.
ExecInvokeIgnoreStop(r) ==
    /\ pc[r] = "run"
    /\ call[r] # NoCall
    /\ ~CtxDone(r)
    /\ call[r] < mws[r].len
    /\ LET u == SliceAt(heap, mws[r], call[r])
       IN /\ stack' = [stack EXCEPT ![r] = Append(@, [unit |-> u, ip |-> 1, i |-> call[r]])]
          /\ Log(r, Event("start", u, call[r]))
    /\ call' = [call EXCEPT ![r] = NoCall]
    /\ UNCHANGED appVars
    /\ UNCHANGED envVars
    /\ UNCHANGED storeVars
    /\ UNCHANGED scopes
    /\ UNCHANGED <<pc, reqMethod, reqPath, handler, ctxParams, mws, Stopped,
                   ctxDone, expiredAtStart, released, written, status, twStatus>>

\* ExecInvoke without the <-ctx.Ctx.Done() case.
ExecInvokeIgnoreDone(r) ==
    /\ pc[r] = "run"
    /\ call[r] # NoCall
    /\ call[r] < mws[r].len /\ ~Stopped[r]
    /\ LET u == SliceAt(heap, mws[r], call[r])
       IN /\ stack' = [stack EXCEPT ![r] = Append(@, [unit |-> u, ip |-> 1, i |-> call[r]])]
          /\ Log(r, Event("start", u, call[r]))
    /\ call' = [call EXCEPT ![r] = NoCall]
    /\ UNCHANGED appVars
    /\ UNCHANGED envVars
    /\ UNCHANGED storeVars
    /\ UNCHANGED scopes
    /\ UNCHANGED <<pc, reqMethod, reqPath, handler, ctxParams, mws, Stopped,
                   ctxDone, expiredAtStart, released, written, status, twStatus>>

\* exec(i), default case with i < len(mws) && !ctx.Stopped: call mws[i].
ExecInvoke(r) ==
    /\ pc[r] = "run"
    /\ call[r] # NoCall
    /\ ~CtxDone(r)
    /\ call[r] < mws[r].len /\ ~Stopped[r]
    /\ LET u == SliceAt(heap, mws[r], call[r])
       IN /\ stack' = [stack EXCEPT ![r] = Append(@, [unit |-> u, ip |-> 1, i |-> call[r]])]
          /\ Log(r, Event("start", u, call[r]))
    /\ call' = [call EXCEPT ![r] = NoCall]
    /\ UNCHANGED appVars
    /\ UNCHANGED envVars
    /\ UNCHANGED storeVars
    /\ UNCHANGED scopes
    /\ UNCHANGED <<pc, reqMethod, reqPath, handler, ctxParams, mws, Stopped,
                   ctxDone, expiredAtStart, released, written, status, twStatus>>

\* ExecSkip that answers 200 itself when the chain was stopped.
ExecSkipDefault(r) ==
    /\ pc[r] = "run"
    /\ call[r] # NoCall
    /\ ~CtxDone(r)
    /\ ~(call[r] < mws[r].len /\ ~Stopped[r])
    /\ call' = [call EXCEPT ![r] = NoCall]
    /\ IF Stopped[r] THEN WriterWriteHeader(r, StatusOK)
       ELSE UNCHANGED <<written, status, twStatus>>
    /\ UNCHANGED appVars
    /\ UNCHANGED envVars
    /\ UNCHANGED storeVars
    /\ UNCHANGED scopes
    /\ UNCHANGED <<pc, reqMethod, reqPath, handler, ctxParams, mws, stack,
                   Stopped, ctxDone, expiredAtStart, released, trace>>

\* exec(i), default case with the condition false: return at once.
ExecSkip(r) ==
    /\ pc[r] = "run"
    /\ call[r] # NoCall
    /\ ~CtxDone(r)
    /\ ~(call[r] < mws[r].len /\ ~Stopped[r])
    /\ call' = [call EXCEPT ![r] = NoCall]
    /\ UNCHANGED appVars
    /\ UNCHANGED envVars
    /\ UNCHANGED storeVars
    /\ UNCHANGED scopes
    /\ UNCHANGED <<pc, reqMethod, reqPath, handler, ctxParams, mws, stack,
                   Stopped, ctxDone, expiredAtStart, released, written, status,
                   twStatus, trace>>

\* ------------------------------------------------------------ context store

\* c.Set(key, value) called on the context of request r.
CtxSet(r, key, value, max) ==
    /\ pc[r] = "run"
    /\ Len(setLog[r]) < max
    /\ store' = [store EXCEPT ![r] = StoreSet(@, key, value)]
    /\ setLog' = [setLog EXCEPT ![r] = Append(@, <<key, value>>)]
    /\ UNCHANGED appVars
    /\ UNCHANGED envVars
    /\ UNCHANGED scopes
    /\ UNCHANGED <<pc, reqMethod, reqPath, handler, ctxParams, mws, call, stack,
                   Stopped, ctxDone, expiredAtStart, released, written, status,
                   twStatus, trace, got>>

\* SetValue[T](c, key, value): c.Set(key, value) with value of type T.
SetValue(r, T, key, value, max) ==
    /\ value.t = T
    /\ CtxSet(r, key, value, max)

\* c.Get(key) called on the context of request r.
CtxGet(r, key) ==
    /\ pc[r] = "run"
    /\ LET g == StoreGet(store[r], key)
       IN got' = [got EXCEPT ![r] = [op |-> "Get", key |-> key, T |-> "",
                                     val |-> g.val, ok |-> g.ok,
                                     at |-> Len(setLog[r])]]
    /\ UNCHANGED appVars
    /\ UNCHANGED envVars
    /\ UNCHANGED scopes
    /\ UNCHANGED <<pc, reqMethod, reqPath, handler, ctxParams, mws, call, stack,
                   Stopped, ctxDone, expiredAtStart, released, written, status,
                   twStatus, trace, store, setLog>>

\* GetValue[T](c, key) called on the context of request r.
GetValue(r, T, key) ==
    /\ pc[r] = "run"
    /\ LET g == StoreGetValue(store[r], T, key)
       IN got' = [got EXCEPT ![r] = [op |-> "GetValue", key |-> key, T |-> T,
                                     val |-> g.val, ok |-> g.ok,
                                     at |-> Len(setLog[r])]]
    /\ UNCHANGED appVars
    /\ UNCHANGED envVars
    /\ UNCHANGED scopes
    /\ UNCHANGED <<pc, reqMethod, reqPath, handler, ctxParams, mws, call, stack,
                   Stopped, ctxDone, expiredAtStart, released, written, status,
                   twStatus, trace, store, setLog>>

\* ------------------------------------------------------------ units

Top(r) == stack[r][Len(stack[r])]

\* The unit on top of the stack is running and not waiting for exec.
Running(r) == pc[r] = "run" /\ call[r] = NoCall /\ stack[r] # <<>>

\* The operation the running unit performs next.
AtOp(r, o) ==
    /\ Running(r)
    /\ Top(r).ip <= Len(Top(r).unit.script)
    /\ Top(r).unit.script[Top(r).ip].op = o

OpArg(r) == Top(r).unit.script[Top(r).ip].arg

Advance(r) == stack' = [stack EXCEPT ![r][Len(stack[r])].ip = @ + 1]

\* The frame of a Group.Use guard that took its else branch: the guard has
\* called next() and has nothing left to do, and no statement of mw has run.
IsPassed(f) == "passed" \in DOMAIN f

PassedFrame(f) ==
    [x \in DOMAIN f \cup {"passed"} |->
        IF x = "passed" THEN TRUE
        ELSE IF x = "ip" THEN Len(f.unit.script) + 1
        ELSE f[x]]

\* The frame of the static middleware that handed the request to the file
\* server and returned: the next() after the if statement was not reached.
IsServed(f) == "served" \in DOMAIN f

ServedFrame(f) ==
    [x \in DOMAIN f \cup {"served"} |->
        IF x = "served" THEN TRUE
        ELSE IF x = "ip" THEN Len(f.unit.script) + 1
        ELSE f[x]]

\* The unit has called its continuation at least once in this invocation.
CalledNext(f) ==
    \/ IsPassed(f)
    \/ /\ ~IsServed(f)
       /\ \E k \in 1..(f.ip - 1) : f.unit.script[k].op = "next"

\* A unit appends a marker to the execution order: before or after next().
Mark(r) ==
    /\ AtOp(r, "mark")
    /\ Log(r, Event(IF CalledNext(Top(r)) THEN "after" ELSE "before", Top(r).unit, Top(r).i))
    /\ Advance(r)
    /\ UNCHANGED appVars
    /\ UNCHANGED envVars
    /\ UNCHANGED storeVars
    /\ UNCHANGED scopes
    /\ UNCHANGED <<pc, reqMethod, reqPath, handler, ctxParams, mws, call, Stopped,
                   ctxDone, expiredAtStart, released, written, status, twStatus>>

\* The frame belongs to a unit run by the executor of WithMiddleware: it
\* carries that executor's chain and its index in it.
IsInner(f) == "j" \in DOMAIN f

\* CallNext with the not-found handler given the chain's continuation
\* instead of the empty one.
CallNextAlwaysExec(r) ==
    /\ AtOp(r, "next")
    /\ call' = [call EXCEPT ![r] = Top(r).i + 1]
    /\ Advance(r)
    /\ UNCHANGED appVars
    /\ UNCHANGED envVars
    /\ UNCHANGED storeVars
    /\ UNCHANGED scopes
    /\ UNCHANGED <<pc, reqMethod, reqPath, handler, ctxParams, mws, Stopped,
                   ctxDone, expiredAtStart, released, written, status, twStatus,
                   trace>>

\* CallNext with the continuation bound to exec(i + 2): one unit is skipped.
CallNextSkip(r) ==
    /\ AtOp(r, "next")
    /\ call' = [call EXCEPT ![r] = IF Top(r).i = -1 THEN NoCall ELSE Top(r).i + 2]
    /\ Advance(r)
    /\ UNCHANGED appVars
    /\ UNCHANGED envVars
    /\ UNCHANGED storeVars
    /\ UNCHANGED scopes
    /\ UNCHANGED <<pc, reqMethod, reqPath, handler, ctxParams, mws, Stopped,
                   ctxDone, expiredAtStart, released, written, status, twStatus,
                   trace>>

\* CallNext with the continuation bound to exec(i): the index does not advance.
CallNextSame(r) ==
    /\ AtOp(r, "next")
    /\ ~IsInner(Top(r))
    /\ call' = [call EXCEPT ![r] = IF Top(r).i = -1 THEN NoCall ELSE Top(r).i]
    /\ Advance(r)
    /\ UNCHANGED appVars
    /\ UNCHANGED envVars
    /\ UNCHANGED storeVars
    /\ UNCHANGED scopes
    /\ UNCHANGED <<pc, reqMethod, reqPath, handler, ctxParams, mws, Stopped,
                   ctxDone, expiredAtStart, released, written, status, twStatus,
                   trace>>

\* A unit calls its continuation: func() { exec(i + 1) } in the chain, the
\* empty func() {} for the not-found handler.
CallNext(r) ==
    /\ AtOp(r, "next")
    /\ ~IsInner(Top(r))
    /\ call' = [call EXCEPT ![r] = IF Top(r).i = -1 THEN NoCall ELSE Top(r).i + 1]
    /\ Advance(r)
    /\ UNCHANGED appVars
    /\ UNCHANGED envVars
    /\ UNCHANGED storeVars
    /\ UNCHANGED scopes
    /\ UNCHANGED <<pc, reqMethod, reqPath, handler, ctxParams, mws, Stopped,
                   ctxDone, expiredAtStart, released, written, status, twStatus,
                   trace>>

\* Context.WithTimeout(d): derive a scope from Context.Ctx, start the
\* goroutine that waits for it, and store it in Context.Ctx.
WithTimeout(r) ==
    /\ AtOp(r, "timeout")
    /\ scopes' = [scopes EXCEPT ![r] = Append(@, [fired |-> FALSE, gor |-> "waiting"])]
    /\ Advance(r)
    /\ UNCHANGED appVars
    /\ UNCHANGED envVars
    /\ UNCHANGED storeVars
    /\ UNCHANGED <<pc, reqMethod, reqPath, handler, ctxParams, mws, call, Stopped,
                   ctxDone, expiredAtStart, released, written, status, twStatus,
                   trace>>

\* The duration given to the k-th WithTimeout of request r has elapsed
\* before the scope was done for another reason.
ScopeExpire(r, k) ==
    /\ k \in 1..Len(scopes[r])
    /\ ~ScopeDone(r, k)
    /\ scopes' = [scopes EXCEPT ![r][k].fired = TRUE]
    /\ UNCHANGED appVars
    /\ UNCHANGED envVars
    /\ UNCHANGED storeVars
    /\ UNCHANGED <<pc, reqMethod, reqPath, handler, ctxParams, mws, call, stack,
                   Stopped, ctxDone, expiredAtStart, released, written, status,
                   twStatus, trace>>

\* The goroutine of the k-th WithTimeout of request r: <-ctx.Done() returns,
\* cancel() is called, the goroutine ends.
GoroutineEnd(r, k) ==
    /\ k \in 1..Len(scopes[r])
    /\ scopes[r][k].gor = "waiting"
    /\ ScopeDone(r, k)
    /\ scopes' = [scopes EXCEPT ![r][k].gor = "ended"]
    /\ UNCHANGED appVars
    /\ UNCHANGED envVars
    /\ UNCHANGED storeVars
    /\ UNCHANGED <<pc, reqMethod, reqPath, handler, ctxParams, mws, call, stack,
                   Stopped, ctxDone, expiredAtStart, released, written, status,
                   twStatus, trace>>

\* Stop on a Context that every request of the App shares.
StopShared(r) ==
    /\ AtOp(r, "stop")
    /\ Stopped' = [q \in Reqs |-> TRUE]
    /\ Advance(r)
    /\ UNCHANGED appVars
    /\ UNCHANGED envVars
    /\ UNCHANGED storeVars
    /\ UNCHANGED scopes
    /\ UNCHANGED <<pc, reqMethod, reqPath, handler, ctxParams, mws, call, ctxDone,
                   expiredAtStart, released, written, status, twStatus, trace>>

\* Context.Stop().
Stop(r) ==
    /\ AtOp(r, "stop")
    /\ Stopped' = [Stopped EXCEPT ![r] = TRUE]
    /\ Advance(r)
    /\ UNCHANGED appVars
    /\ UNCHANGED envVars
    /\ UNCHANGED storeVars
    /\ UNCHANGED scopes
    /\ UNCHANGED <<pc, reqMethod, reqPath, handler, ctxParams, mws, call,
                   ctxDone, expiredAtStart, released, written, status, twStatus,
                   trace>>

\* Context.Send(code, text): WriteHeader(code), then Write(text); the Write
\* after the WriteHeader changes neither the written flag nor what the
\* transport writer has committed.
Send(r) ==
    /\ AtOp(r, "send")
    /\ WriterWriteHeader(r, OpArg(r))
    /\ Advance(r)
    /\ UNCHANGED appVars
    /\ UNCHANGED envVars
    /\ UNCHANGED storeVars
    /\ UNCHANGED scopes
    /\ UNCHANGED <<pc, reqMethod, reqPath, handler, ctxParams, mws, call, Stopped,
                   ctxDone, expiredAtStart, released, trace>>

\* c.Writer.WriteHeader(code) called by a unit.
WriteHeader(r) ==
    /\ AtOp(r, "wh")
    /\ WriterWriteHeader(r, OpArg(r))
    /\ Advance(r)
    /\ UNCHANGED appVars
    /\ UNCHANGED envVars
    /\ UNCHANGED storeVars
    /\ UNCHANGED scopes
    /\ UNCHANGED <<pc, reqMethod, reqPath, handler, ctxParams, mws, call, Stopped,
                   ctxDone, expiredAtStart, released, trace>>

\* c.Writer.Write(b) called by a unit.
Write(r) ==
    /\ AtOp(r, "write")
    /\ WriterWrite(r)
    /\ Advance(r)
    /\ UNCHANGED appVars
    /\ UNCHANGED envVars
    /\ UNCHANGED storeVars
    /\ UNCHANGED scopes
    /\ UNCHANGED <<pc, reqMethod, reqPath, handler, ctxParams, mws, call, Stopped,
                   ctxDone, expiredAtStart, released, trace>>

\* UnitReturn in an executor that walks the chain in a loop: when a unit
\* returns without having called its continuation, the next unit is run.
UnitReturnFallThrough(r) ==
    /\ Running(r)
    /\ Top(r).ip > Len(Top(r).unit.script)
    /\ stack' = [stack EXCEPT ![r] = SubSeq(@, 1, Len(@) - 1)]
    /\ call' = [call EXCEPT ![r] =
                   IF Top(r).i # -1 /\ ~CalledNext(Top(r)) THEN Top(r).i + 1 ELSE @]
    /\ UNCHANGED appVars
    /\ UNCHANGED envVars
    /\ UNCHANGED storeVars
    /\ UNCHANGED scopes
    /\ UNCHANGED <<pc, reqMethod, reqPath, handler, ctxParams, mws, Stopped,
                   ctxDone, expiredAtStart, released, written, status, twStatus,
                   trace>>

\* A unit's body ends: control returns to the exec call that invoked it.
UnitReturn(r) ==
    /\ Running(r)
    /\ Top(r).ip > Len(Top(r).unit.script)
    /\ stack' = [stack EXCEPT ![r] = SubSeq(@, 1, Len(@) - 1)]
    /\ UNCHANGED appVars
    /\ UNCHANGED envVars
    /\ UNCHANGED storeVars
    /\ UNCHANGED scopes
    /\ UNCHANGED <<pc, reqMethod, reqPath, handler, ctxParams, mws, call, Stopped,
                   ctxDone, expiredAtStart, released, written, status, twStatus,
                   trace>>

\* The unit full[j] of a WithMiddleware chain: the middleware in the order
\* given, then the handler.
InnerUnit(full, j) ==
    Unit(IF j = Len(full) - 1 THEN "wh" ELSE "wm", j + 1, full[j + 1])

InnerFrame(full, j, i) ==
    [unit |-> InnerUnit(full, j), ip |-> 1, i |-> i, j |-> j, full |-> full]

\* The body of a WithMiddleware unit: build full and call exec(0), which
\* invokes full[0] (full holds at least the handler).
WithEnter(r) ==
    /\ AtOp(r, "with")
    /\ stack' = [stack EXCEPT ![r] =
                     Append([@ EXCEPT ![Len(@)].ip = @ + 1],
                            InnerFrame(OpArg(r), 0, Top(r).i))]
    /\ Log(r, Event("start", InnerUnit(OpArg(r), 0), Top(r).i))
    /\ UNCHANGED appVars
    /\ UNCHANGED envVars
    /\ UNCHANGED storeVars
    /\ UNCHANGED scopes
    /\ UNCHANGED <<pc, reqMethod, reqPath, handler, ctxParams, mws, call, Stopped,
                   ctxDone, expiredAtStart, released, written, status, twStatus>>

\* InnerInvoke with the continuation bound to exec(i + 2) while there is such
\* a unit: one unit of the chain is skipped.
InnerInvokeSkipOne(r) ==
    /\ AtOp(r, "next")
    /\ IsInner(Top(r))
    /\ Top(r).j + 1 < Len(Top(r).full)
    /\ LET j == IF Top(r).j + 2 < Len(Top(r).full) THEN Top(r).j + 2 ELSE Top(r).j + 1
       IN /\ stack' = [stack EXCEPT ![r] =
                           Append([@ EXCEPT ![Len(@)].ip = @ + 1],
                                  InnerFrame(Top(r).full, j, Top(r).i))]
          /\ Log(r, Event("start", InnerUnit(Top(r).full, j), Top(r).i))
    /\ UNCHANGED appVars
    /\ UNCHANGED envVars
    /\ UNCHANGED storeVars
    /\ UNCHANGED scopes
    /\ UNCHANGED <<pc, reqMethod, reqPath, handler, ctxParams, mws, call, Stopped,
                   ctxDone, expiredAtStart, released, written, status, twStatus>>

\* A unit of a WithMiddleware chain calls its continuation func() { exec(i + 1) }
\* with i + 1 < len(full): full[i + 1] is invoked.
InnerInvoke(r) ==
    /\ AtOp(r, "next")
    /\ IsInner(Top(r))
    /\ Top(r).j + 1 < Len(Top(r).full)
    /\ stack' = [stack EXCEPT ![r] =
                     Append([@ EXCEPT ![Len(@)].ip = @ + 1],
                            InnerFrame(Top(r).full, Top(r).j + 1, Top(r).i))]
    /\ Log(r, Event("start", InnerUnit(Top(r).full, Top(r).j + 1), Top(r).i))
    /\ UNCHANGED appVars
    /\ UNCHANGED envVars
    /\ UNCHANGED storeVars
    /\ UNCHANGED scopes
    /\ UNCHANGED <<pc, reqMethod, reqPath, handler, ctxParams, mws, call, Stopped,
                   ctxDone, expiredAtStart, released, written, status, twStatus>>

\* The last unit of a WithMiddleware chain calls its continuation: exec(len(full))
\* calls next(), the continuation that was passed to the composed unit.
InnerCallOuter(r) ==
    /\ AtOp(r, "next")
    /\ IsInner(Top(r))
    /\ ~(Top(r).j + 1 < Len(Top(r).full))
    /\ call' = [call EXCEPT ![r] = IF Top(r).i = -1 THEN NoCall ELSE Top(r).i + 1]
    /\ Advance(r)
    /\ Log(r, <<"next", "with", Top(r).j + 1, Top(r).i>>)
    /\ UNCHANGED appVars
    /\ UNCHANGED envVars
    /\ UNCHANGED storeVars
    /\ UNCHANGED scopes
    /\ UNCHANGED <<pc, reqMethod, reqPath, handler, ctxParams, mws, Stopped,
                   ctxDone, expiredAtStart, released, written, status, twStatus>>

\* The statuses http.FileServer behind http.StripPrefix gives to WriteHeader:
\* the file (200, 206 for a range, 304 when not modified), a redirect (301),
\* or an error (403, 404, 412 for a failed precondition, 416, 500).
FileServerCodes ==
    {StatusOK, 206, 301, 304, 403, StatusNotFound, 412, 416, StatusInternalServerError}

\* The static middleware on a path that has the route prefix: the file server
\* answers through c.Writer, with WriteHeader of one of its statuses or, for
\* a directory listing, with Write alone, and the middleware returns without
\* calling next().
StaticServe(r) ==
    /\ AtOp(r, "static")
    /\ HasPrefix(reqPath[r], StaticPrefix)
    /\ \/ \E code \in FileServerCodes : WriterWriteHeader(r, code)
       \/ WriterWrite(r)
    /\ stack' = [stack EXCEPT ![r][Len(stack[r])] = ServedFrame(@)]
    /\ Log(r, Event("fileserver", Top(r).unit, Top(r).i))
    /\ UNCHANGED appVars
    /\ UNCHANGED envVars
    /\ UNCHANGED storeVars
    /\ UNCHANGED scopes
    /\ UNCHANGED <<pc, reqMethod, reqPath, handler, ctxParams, mws, call, Stopped,
                   ctxDone, expiredAtStart, released>>

\* The static middleware on a path without the route prefix: go on to next().
StaticPass(r) ==
    /\ AtOp(r, "static")
    /\ ~HasPrefix(reqPath[r], StaticPrefix)
    /\ Advance(r)
    /\ UNCHANGED appVars
    /\ UNCHANGED envVars
    /\ UNCHANGED storeVars
    /\ UNCHANGED scopes
    /\ UNCHANGED <<pc, reqMethod, reqPath, handler, ctxParams, mws, call, Stopped,
                   ctxDone, expiredAtStart, released, written, status, twStatus,
                   trace>>

\* The guard of Group.Use that calls mw whatever the request path is.
GroupInvokeAlways(r) ==
    /\ AtOp(r, "group")
    /\ Log(r, Event("invoke", Top(r).unit, Top(r).i))
    /\ Advance(r)
    /\ UNCHANGED appVars
    /\ UNCHANGED envVars
    /\ UNCHANGED storeVars
    /\ UNCHANGED scopes
    /\ UNCHANGED <<pc, reqMethod, reqPath, handler, ctxParams, mws, call, Stopped,
                   ctxDone, expiredAtStart, released, written, status, twStatus>>

\* The guard of Group.Use on a path that has the group's prefix: mw(c, next)
\* is called with the guard's own continuation, and the guard returns when
\* mw does.
GroupInvoke(r) ==
    /\ AtOp(r, "group")
    /\ HasPrefix(reqPath[r], GroupPrefix)
    /\ Log(r, Event("invoke", Top(r).unit, Top(r).i))
    /\ Advance(r)
    /\ UNCHANGED appVars
    /\ UNCHANGED envVars
    /\ UNCHANGED storeVars
    /\ UNCHANGED scopes
    /\ UNCHANGED <<pc, reqMethod, reqPath, handler, ctxParams, mws, call, Stopped,
                   ctxDone, expiredAtStart, released, written, status, twStatus>>

\* The guard of Group.Use on a path without the group's prefix: next() is
\* called and the guard returns when it does; mw is not called.
GroupPass(r) ==
    /\ AtOp(r, "group")
    /\ ~HasPrefix(reqPath[r], GroupPrefix)
    /\ call' = [call EXCEPT ![r] = Top(r).i + 1]
    /\ stack' = [stack EXCEPT ![r][Len(stack[r])] = PassedFrame(@)]
    /\ UNCHANGED appVars
    /\ UNCHANGED envVars
    /\ UNCHANGED storeVars
    /\ UNCHANGED scopes
    /\ UNCHANGED <<pc, reqMethod, reqPath, handler, ctxParams, mws, Stopped,
                   ctxDone, expiredAtStart, released, written, status, twStatus,
                   trace>>

\* The unit has executed its defer statement: its recovering function runs
\* when a panic unwinds through the frame.
Recovers(f) ==
    /\ ~IsPassed(f)
    /\ \E k \in 1..(f.ip - 1) : f.unit.script[k].op = "defer"

\* The innermost frame of request r with a recovering function, 0 if none.
Recoverer(r) ==
    IF \E j \in 1..Len(stack[r]) : Recovers(stack[r][j])
    THEN CHOOSE j \in 1..Len(stack[r]) :
             /\ Recovers(stack[r][j])
             /\ \A k \in (j + 1)..Len(stack[r]) : ~Recovers(stack[r][k])
    ELSE 0

\* The function deferred by frame f.
Deferred(f) ==
    f.unit.script[CHOOSE k \in 1..(f.ip - 1) : f.unit.script[k].op = "defer"].arg

\* defer func() { ... }() in ErrorHandlerMiddleware and Recovery.
Defer(r) ==
    /\ AtOp(r, "defer")
    /\ Advance(r)
    /\ UNCHANGED appVars
    /\ UNCHANGED envVars
    /\ UNCHANGED storeVars
    /\ UNCHANGED scopes
    /\ UNCHANGED <<pc, reqMethod, reqPath, handler, ctxParams, mws, call, Stopped,
                   ctxDone, expiredAtStart, released, written, status, twStatus,
                   trace>>

\* RecoverWrite with a DefaultErrorHandler that does not test Written().
RecoverWriteAlways(r, fn) == WriterWriteHeader(r, StatusInternalServerError)

\* What the recovering function fn does with the response: DefaultErrorHandler
\* writes 500 unless something was written, the custom handler and Recovery
\* call c.JSON(500, ...).
RecoverWrite(r, fn) ==
    IF fn = EhDefault /\ written[r]
    THEN UNCHANGED <<written, status, twStatus>>
    ELSE WriterWriteHeader(r, StatusInternalServerError)

\* isSilentMode()
isSilentMode ==
    SilentMode = "true" \/ (SilentMode = "" /\ Contains(Args0, <<"t", "e", "s", "t">>))

\* LogPanic that prints in every mode.
LogPanicAlways(err, k) == <<<<"log", "Panic recovered", err, k>>>>

\* LogPanic(err, stackTrace): the lines it prints for the recovery at k.
LogPanic(err, k) ==
    IF ~isSilentMode THEN <<<<"log", "Panic recovered", err, k>>>> ELSE <<>>

\* The events of a recovery by the frame at chain position k: the panic, then
\* LogPanic and the error handler called with the converted value, or
\* Recovery's report.
RecoverLog(r, fn, k) ==
    trace' = [trace EXCEPT ![r] =
        @ \o <<Event("panic", Top(r).unit, Top(r).i)>>
          \o (IF fn = RecoveryFn THEN <<>> ELSE LogPanic(ToError(OpArg(r)), k))
          \o <<IF fn = RecoveryFn THEN <<"recovered", "Recovery", OpArg(r), k>>
                ELSE <<"handle",
                       IF fn = EhDefault THEN "DefaultErrorHandler" ELSE "errorHandler",
                       ToError(OpArg(r)), k>>>>]

\* Recover that gives up the whole chain: the units above the recovering one
\* are not returned to.
RecoverAbandon(r) ==
    /\ AtOp(r, "panic")
    /\ Recoverer(r) # 0
    /\ LET f == stack[r][Recoverer(r)]
       IN /\ RecoverWrite(r, Deferred(f))
          /\ RecoverLog(r, Deferred(f), f.i)
    /\ stack' = [stack EXCEPT ![r] = <<>>]
    /\ UNCHANGED appVars
    /\ UNCHANGED envVars
    /\ UNCHANGED storeVars
    /\ UNCHANGED scopes
    /\ UNCHANGED <<pc, reqMethod, reqPath, handler, ctxParams, mws, call, Stopped,
                   ctxDone, expiredAtStart, released>>

\* Recover whose recovering function swallows the panic and writes nothing.
RecoverSilent(r) ==
    /\ AtOp(r, "panic")
    /\ Recoverer(r) # 0
    /\ LET f == stack[r][Recoverer(r)]
       IN /\ RecoverLog(r, Deferred(f), f.i)
          /\ stack' = [stack EXCEPT ![r] = SubSeq(@, 1, Recoverer(r) - 1)]
    /\ UNCHANGED appVars
    /\ UNCHANGED envVars
    /\ UNCHANGED storeVars
    /\ UNCHANGED scopes
    /\ UNCHANGED <<pc, reqMethod, reqPath, handler, ctxParams, mws, call, Stopped,
                   ctxDone, expiredAtStart, released, written, status, twStatus>>

\* A unit panics below a unit that deferred a recovering function: the panic
\* unwinds to the innermost such frame, whose deferred function recovers it,
\* reports it and writes the response; that unit then returns normally.
Recover(r) ==
    /\ AtOp(r, "panic")
    /\ Recoverer(r) # 0
    /\ LET f == stack[r][Recoverer(r)]
       IN /\ RecoverWrite(r, Deferred(f))
          /\ RecoverLog(r, Deferred(f), f.i)
          /\ stack' = [stack EXCEPT ![r] = SubSeq(@, 1, Recoverer(r) - 1)]
    /\ UNCHANGED appVars
    /\ UNCHANGED envVars
    /\ UNCHANGED storeVars
    /\ UNCHANGED scopes
    /\ UNCHANGED <<pc, reqMethod, reqPath, handler, ctxParams, mws, call, Stopped,
                   ctxDone, expiredAtStart, released>>

\* Panic with cancel() called at the end of ServeHTTP instead of deferred.
PanicNoRelease(r) ==
    /\ AtOp(r, "panic")
    /\ stack' = [stack EXCEPT ![r] = <<>>]
    /\ pc' = [pc EXCEPT ![r] = "panicked"]
    /\ Log(r, Event("panic", Top(r).unit, Top(r).i))
    /\ UNCHANGED appVars
    /\ UNCHANGED envVars
    /\ UNCHANGED storeVars
    /\ UNCHANGED scopes
    /\ UNCHANGED <<reqMethod, reqPath, handler, ctxParams, mws, call, Stopped,
                   ctxDone, expiredAtStart, released, written, status, twStatus>>

\* Panic in an executor that recovers around each unit it invokes: the
\* panicking unit alone is abandoned and its caller goes on.
PanicCaughtByExec(r) ==
    /\ AtOp(r, "panic")
    /\ Recoverer(r) = 0
    /\ stack' = [stack EXCEPT ![r] = SubSeq(@, 1, Len(@) - 1)]
    /\ Log(r, Event("panic", Top(r).unit, Top(r).i))
    /\ UNCHANGED appVars
    /\ UNCHANGED envVars
    /\ UNCHANGED storeVars
    /\ UNCHANGED scopes
    /\ UNCHANGED <<pc, reqMethod, reqPath, handler, ctxParams, mws, call, Stopped,
                   ctxDone, expiredAtStart, released, written, status, twStatus>>

\* A unit panics and no unit below it deferred a recovering function: with
\* no recovery in the executor the panic unwinds every frame and leaves
\* ServeHTTP, running the deferred cancel() on the way.
Panic(r) ==
    /\ AtOp(r, "panic")
    /\ Recoverer(r) = 0
    /\ stack' = [stack EXCEPT ![r] = <<>>]
    /\ pc' = [pc EXCEPT ![r] = "panicked"]
    /\ released' = [released EXCEPT ![r] = TRUE]
    /\ Log(r, Event("panic", Top(r).unit, Top(r).i))
    /\ UNCHANGED appVars
    /\ UNCHANGED envVars
    /\ UNCHANGED storeVars
    /\ UNCHANGED scopes
    /\ UNCHANGED <<reqMethod, reqPath, handler, ctxParams, mws, call, Stopped,
                   ctxDone, expiredAtStart, written, status, twStatus>>

\* ServeHTTP returns (exec(0) or the not-found branch is over): the deferred
\* cancel() releases the scope.
Return(r) ==
    /\ pc[r] = "run"
    /\ call[r] = NoCall
    /\ stack[r] = <<>>
    /\ pc' = [pc EXCEPT ![r] = "done"]
    /\ released' = [released EXCEPT ![r] = TRUE]
    /\ UNCHANGED appVars
    /\ UNCHANGED envVars
    /\ UNCHANGED storeVars
    /\ UNCHANGED scopes
    /\ UNCHANGED <<reqMethod, reqPath, handler, ctxParams, mws, call, stack,
                   Stopped, ctxDone, expiredAtStart, written, status, twStatus,
                   trace>>

\* The request's cancellation signal fires while ServeHTTP is running: the
\* 30 s deadline passes or the inbound request's scope is cancelled.
Expire(r) ==
    /\ pc[r] \in {"notfound", "run"}
    /\ ~ctxDone[r]
    /\ ctxDone' = [ctxDone EXCEPT ![r] = TRUE]
    /\ UNCHANGED appVars
    /\ UNCHANGED envVars
    /\ UNCHANGED storeVars
    /\ UNCHANGED scopes
    /\ UNCHANGED <<pc, reqMethod, reqPath, handler, ctxParams, mws, call, stack,
                   Stopped, expiredAtStart, released, written, status, twStatus,
                   trace>>

\* ------------------------------------------------------------ specifications

\* What one request does once it has been dispatched.
Serve(r) ==
    \/ InvokeNotFound(r)
    \/ HttpNotFound(r)
    \/ ExecTimeout(r)
    \/ ExecInvoke(r)
    \/ ExecSkip(r)
    \/ Mark(r)
    \/ CallNext(r)
    \/ Stop(r)
    \/ Send(r)
    \/ WriteHeader(r)
    \/ Write(r)
    \/ UnitReturn(r)
    \/ Panic(r)
    \/ Return(r)
    \/ Expire(r)

\* One request on an App set up with any middleware and route handler bodies.
Next ==
    \/ ~serving /\ \E s \in MwScripts : Use(s, MaxMw)
    \/ ~serving /\ \E s \in HScripts : GET(PathA, s, MaxRoutes)
    \/ ~serving /\ \E s \in HScripts : POST(PathA, s, MaxRoutes)
    \/ ~serving /\ \E h \in {CustomNotFound, NilFunc} : SetNotFoundHandler(h)
    \/ Listen
    \/ \E m \in Methods, p \in Paths, e \in BOOLEAN : Dispatch(1, m, p, e)
    \/ Serve(1)

Spec == Init /\ [][Next]_vars

\* Requests dispatched concurrently on an App whose middleware all pass on.
ServeConc(r) ==
    \/ ExecInvoke(r)
    \/ ExecSkip(r)
    \/ CallNext(r)
    \/ Send(r)
    \/ UnitReturn(r)
    \/ Return(r)

NextConc ==
    \/ ~serving /\ Use(PassOn, MaxMwConc)
    \/ ~serving /\ \E p \in Paths : GET(p, HNext, MaxRoutesConc)
    \/ Listen
    \/ \E r \in Reqs, p \in Paths : Dispatch(r, "GET", p, FALSE)
    \/ \E r \in Reqs : ServeConc(r)

SpecConc == Init /\ [][NextConc]_vars

\* ------------------------------------------------------------ properties

\* The events of kind e recorded for request r.
EventsOf(r, e) == SelectSeq(trace[r], LAMBDA ev : ev[1] = e)
Starts(r) == EventsOf(r, "start")
StartsOfKind(r, k) == SelectSeq(trace[r], LAMBDA ev : ev[1] = "start" /\ ev[2] = k)
TimedOut(r) == EventsOf(r, "timeout") # <<>>

Dispatched(r) == pc[r] # "idle"
Matched(r) == Dispatched(r) /\ handler[r] # NilFunc

\* The global middleware in registration order.
Registered == SliceSeq(heap, middleware)
AllWrap == \A j \in 1..Len(Registered) : Registered[j].script = Wrap

\* The execution order a test would record: the middleware's before/after
\* markers and the route handler's invocation.
OrderTrace(r) ==
    SelectSeq(trace[r], LAMBDA ev :
        \/ ev[2] = "mw" /\ ev[1] \in {"before", "after"}
        \/ ev[2] = "h" /\ ev[1] = "start")

\* M1-before .. Md-before, then H when the handler was reached, then
\* Md-after .. M1-after, for the first d middleware of n.
Nested(r, d, withH) ==
    [j \in 1..d |-> <<"before", "mw", j, j - 1>>]
    \o (IF withH THEN <<<<"start", "h", handler[r].n, middleware.len>>>> ELSE <<>>)
    \o [j \in 1..d |-> <<"after", "mw", d + 1 - j, d - j>>]

\* C1: for a matched request on an App whose global middleware M1..Mn each
\* mark before and after calling their continuation once, the execution
\* order recorded when ServeHTTP returns is M1-before .. Mn-before, H,
\* Mn-after .. M1-after.
C1_MiddlewareOrder ==
    \A r \in Reqs :
        (pc[r] = "done" /\ Matched(r) /\ AllWrap /\ ~TimedOut(r))
            => OrderTrace(r) = Nested(r, middleware.len, TRUE)

C1_Witness ==
    /\ pc[1] = "done" /\ Matched(1) /\ AllWrap /\ ~TimedOut(1)
    /\ middleware.len = 2
    /\ Len(OrderTrace(1)) = 5
    /\ OrderTrace(1) = Nested(1, 2, TRUE)

\* The unit the chain of request r is meant to hold at position i: the
\* global middleware in registration order, then the matched handler.
ChainUnit(r, i) ==
    IF i < middleware.len THEN <<"mw", i + 1>> ELSE <<"h", handler[r].n>>

\* C2: under concurrent dispatch every unit a request starts is the one its
\* own chain holds at that position: the global middleware in registration
\* order, then the handler of the route this request matched.
C2_OwnHandler ==
    \A r \in Reqs :
        \A k \in 1..Len(trace[r]) :
            (trace[r][k][1] = "start" /\ trace[r][k][4] >= 0)
                => <<trace[r][k][2], trace[r][k][3]>> = ChainUnit(r, trace[r][k][4])

HasNext(script) == \E k \in 1..Len(script) : script[k].op = "next"

\* The chain positions at which a unit of request r has been started.
StartedPos(r) == {Starts(r)[k][4] : k \in 1..Len(Starts(r))}

\* C3: when the unit at position i of a request's chain never calls its
\* continuation, no unit at a position after i is started for that request.
C3_ShortCircuit ==
    \A r \in Reqs :
        Matched(r) =>
            \A i \in 0..(mws[r].len - 1) :
                ~HasNext(SliceAt(heap, mws[r], i).script)
                    => \A j \in StartedPos(r) : j <= i

C3_Witness ==
    /\ pc[1] = "done" /\ Matched(1)
    /\ middleware.len = 2
    /\ Registered[1].script = Deny
    /\ Starts(1) = <<<<"start", "mw", 1, 0>>>>
    /\ twStatus[1] = StatusUnauthorized

\* C4: once the stopped flag of a request is set, no unit that has not yet
\* started is started for that request.
C4_StopHalts ==
    [][\A r \in Reqs : Stopped[r] => StartedPos(r)' \subseteq StartedPos(r)]_vars

C4_Witness ==
    /\ pc[1] = "done" /\ Matched(1) /\ Stopped[1]
    /\ middleware.len = 2
    /\ Registered[1].script = Twice
    /\ Registered[2].script = StopNext
    /\ StartedPos(1) = {0, 1}

\* C5 as stated: a request whose scope is expired when ServeHTTP begins
\* gets status 504 and no unit body runs, whatever its method and path.
C5_ExpiredAny ==
    \A r \in Reqs :
        (pc[r] = "done" /\ expiredAtStart[r])
            => (twStatus[r] = StatusGatewayTimeout /\ Starts(r) = <<>>)

\* C5, amended: a request that matches a route and whose scope is expired
\* when ServeHTTP begins gets status 504 and no middleware or handler body
\* runs; a request that matches no route is handed to the not-found branch
\* without any look at the scope.
C5_ExpiredMatched ==
    \A r \in Reqs :
        expiredAtStart[r] =>
            /\ Matched(r) =>
                /\ Starts(r) = <<>>
                /\ pc[r] = "done" =>
                    /\ status[r] = StatusGatewayTimeout
                    /\ twStatus[r] = StatusGatewayTimeout
                    /\ trace[r] = <<<<"timeout", "exec", 0, 0>>>>
            /\ (pc[r] = "done" /\ ~Matched(r)) =>
                /\ ~TimedOut(r)
                /\ NotFoundHandler # NilFunc => Len(StartsOfKind(r, "nf")) = 1
                /\ NotFoundHandler = DefaultNotFound => twStatus[r] = StatusNotFound

C5_Witness ==
    /\ pc[1] = "done" /\ expiredAtStart[1] /\ Matched(1)
    /\ middleware.len = 2
    /\ twStatus[1] = StatusGatewayTimeout
    /\ Starts(1) = <<>>

\* The call indexes at which the executor of request r saw the signal fired.
TimeoutAt(r) == {EventsOf(r, "timeout")[k][4] : k \in 1..Len(EventsOf(r, "timeout"))}

\* At a step boundary reached with the signal fired, the executor writes 504,
\* starts nothing and leaves the running units in place.
C6_Boundary ==
    \A r \in Reqs :
        (ctxDone[r] /\ call[r] # NoCall /\ call'[r] # call[r]) =>
            /\ call'[r] = NoCall
            /\ status'[r] = StatusGatewayTimeout
            /\ written'[r]
            /\ stack'[r] = stack[r]
            /\ Starts(r)' = Starts(r)

\* Every unit that was started runs to its end: with middleware that mark
\* before and after their continuation call, the markers of the d units
\* that were started nest, and no unit at or after a boundary where the
\* signal was seen has been started.
C6_Unwinds ==
    \A r \in Reqs :
        (pc[r] = "done" /\ Matched(r) /\ AllWrap) =>
            /\ OrderTrace(r) = Nested(r, Len(StartsOfKind(r, "mw")),
                                      StartsOfKind(r, "h") # <<>>)
            /\ \A c \in TimeoutAt(r) : \A j \in StartedPos(r) : j < c

\* C6: cancellation is seen only at step boundaries: the unit running when
\* the signal fires is not interrupted; when it calls its continuation no
\* later unit is started and the executor writes 504; the code after the
\* continuation call of that unit and of every unit before it still runs,
\* in reverse order.
C6_CancelAtBoundary == [](C6_Unwinds) /\ [][C6_Boundary]_vars

C6_Witness ==
    /\ pc[1] = "done" /\ Matched(1) /\ AllWrap /\ ~expiredAtStart[1]
    /\ middleware.len = 2
    /\ TimeoutAt(1) = {1}
    /\ status[1] = StatusGatewayTimeout
    /\ OrderTrace(1) = <<<<"before", "mw", 1, 0>>, <<"after", "mw", 1, 0>>>>

\* C7 as stated: for every request exactly one terminal handler runs,
\* exactly once: the matched handler, or else the not-found handler.
C7_ExactlyOneTerminal ==
    \A r \in Reqs :
        pc[r] = "done" =>
            IF Matched(r)
            THEN /\ Len(StartsOfKind(r, "h")) = 1
                 /\ StartsOfKind(r, "nf") = <<>>
            ELSE /\ Len(StartsOfKind(r, "nf")) = 1
                 /\ StartsOfKind(r, "h") = <<>>

\* The unit calls its continuation exactly once and never stops the chain.
CallsNextOnce(script) ==
    /\ Cardinality({k \in 1..Len(script) : script[k].op = "next"}) = 1
    /\ \A k \in 1..Len(script) : script[k].op # "stop"

\* C7, amended: a request never runs both a route handler and the not-found
\* handler. With no match no route handler runs and the not-found handler
\* runs exactly once when one is configured, not at all when it is nil.
\* With a match the not-found handler never runs, and the route handler runs
\* exactly once when every middleware calls its continuation exactly once,
\* none stops the chain and the executor never sees the signal fired; it
\* does not run when a middleware before it never calls its continuation.
C7_Terminal ==
    \A r \in Reqs :
        /\ (Dispatched(r) /\ ~Matched(r)) =>
            /\ StartsOfKind(r, "h") = <<>>
            /\ pc[r] = "done" =>
                Len(StartsOfKind(r, "nf")) = IF NotFoundHandler = NilFunc THEN 0 ELSE 1
        /\ Matched(r) =>
            /\ StartsOfKind(r, "nf") = <<>>
            /\ (pc[r] = "done" /\ ~TimedOut(r)
                    /\ \A j \in 1..Len(Registered) : CallsNextOnce(Registered[j].script))
                => Len(StartsOfKind(r, "h")) = 1
            /\ (\E j \in 1..Len(Registered) : ~HasNext(Registered[j].script))
                => StartsOfKind(r, "h") = <<>>

C7_Witness ==
    /\ pc[1] = "done" /\ Matched(1) /\ ~TimedOut(1)
    /\ middleware.len = 2
    /\ \A j \in 1..2 : CallsNextOnce(Registered[j].script)
    /\ StartsOfKind(1, "h") = <<<<"start", "h", handler[1].n, 2>>>>

\* C8 as stated: on every path a response has been committed to the
\* transport writer by the time ServeHTTP returns.
C8_AlwaysCommitted ==
    \A r \in Reqs : pc[r] = "done" => twStatus[r] # 0

\* C8, amended: when ServeHTTP returns, a response has been committed to the
\* transport writer exactly when a unit or the executor wrote to the
\* ResponseWriter or http.NotFound ran; so one is committed on the timeout
\* path and on the unmatched path with the default or no NotFoundHandler
\* (status 404), and none when no unit wrote (a chain stopped or
\* short-circuited in silence, a custom not-found handler that writes nothing).
C8_Committed ==
    \A r \in Reqs :
        pc[r] = "done" =>
            /\ twStatus[r] # 0 <=>
                (written[r] \/ (~Matched(r) /\ NotFoundHandler = NilFunc))
            /\ TimedOut(r) => (written[r] /\ twStatus[r] # 0)
            /\ (~Matched(r) /\ NotFoundHandler \in {DefaultNotFound, NilFunc})
                => twStatus[r] = StatusNotFound

C8_Witness ==
    /\ pc[1] = "done" /\ Matched(1)
    /\ middleware.len = 1
    /\ Registered[1].script = StopNext
    /\ TimeoutAt(1) = {1}
    /\ twStatus[1] = StatusGatewayTimeout

\* C9: the scope derived by ServeHTTP is released on every exit path: once
\* ServeHTTP has returned or a panic has unwound it, cancel() has been called.
C9_Released ==
    \A r \in Reqs : pc[r] \in {"done", "panicked"} => released[r]

C9_Witness ==
    /\ pc[1] = "panicked" /\ released[1]
    /\ middleware.len = 1
    /\ Len(trace[1]) > 0 /\ trace[1][Len(trace[1])][1] = "panic"

\* No registered route matches the request.
Unmatched(r) ==
    Dispatched(r) /\ matchRoute(routes, reqMethod[r], reqPath[r]).handler = NilFunc

\* C10: a request that matches no route, whatever its method, gets the
\* not-found outcome: the NotFoundHandler is invoked exactly once with a
\* continuation that does nothing (the default one writes 404, one set with
\* SetNotFoundHandler replaces it), http.NotFound answers when it is nil,
\* and no middleware and no route handler runs.
C10_NotFound ==
    \A r \in Reqs :
        Unmatched(r) =>
            /\ StartsOfKind(r, "h") = <<>>
            /\ StartsOfKind(r, "mw") = <<>>
            /\ call[r] = NoCall
            /\ ~TimedOut(r)
            /\ pc[r] = "done" =>
                IF NotFoundHandler = NilFunc
                THEN /\ trace[r] = <<<<"http.NotFound", "nil", 0, -1>>>>
                     /\ twStatus[r] = StatusNotFound
                ELSE /\ Starts(r) = <<<<"start", "nf", NotFoundHandler.n, -1>>>>
                     /\ NotFoundHandler = DefaultNotFound =>
                            (status[r] = StatusNotFound /\ twStatus[r] = StatusNotFound)
                     /\ NotFoundHandler = CustomNotFound =>
                            /\ trace[r] = <<<<"start", "nf", 1, -1>>, <<"before", "nf", 1, -1>>>>
                            /\ twStatus[r] = 0

C10_Witness ==
    /\ pc[1] = "done"
    /\ reqMethod[1] = "POST" /\ reqPath[1] = PathA
    /\ Len(routes["GET"]) = 1
    /\ NotFoundHandler = CustomNotFound
    /\ Len(trace[1]) = 2

\* ------------------------------------------------------------ matcher model

\* Largest number of routes registered in the matcher model.
MaxRoutesMatch == 2

\* Route patterns: literal, parameterised, one parameter name used twice.
PatLit == <<"/", "a", "/", "b">>
PatParam == <<"/", "a", "/", ":", "x">>
PatTwice == <<"/", ":", "x", "/", ":", "x">>
PatUpper == <<"/", "A", "/", ":", "y">>
Patterns == {PatLit, PatParam, PatTwice, PatUpper}

\* Request paths: one, two and three segments, upper and lower case.
MatchPaths ==
    {<<"/", "a", "/", "b">>, <<"/", "a", "/", "c">>, <<"/", "c", "/", "b">>,
     <<"/", "A", "/", "b">>, <<"/", "a">>, <<"/", "a", "/", "b", "/", "c">>}

\* Routes registered with any pattern under any method, then one request.
NextMatch ==
    \/ ~serving /\ \E m \in Methods, p \in Patterns : addRoute(m, p, Plain, MaxRoutesMatch)
    \/ Listen
    \/ \E m \in Methods, p \in MatchPaths : Dispatch(1, m, p, FALSE)

SpecMatch == Init /\ [][NextMatch]_vars

\* The segments of a string, as the claims speak of them.
Segs(p) == splitPath(p)
IsParamSeg(seg) == seg # <<>> /\ seg[1] = ":"
ParamName(seg) == SubSeq(seg, 2, Len(seg))

\* Pattern P and path R agree: same number of segments, and every segment of
\* P that is not a parameter equals R's segment, case-sensitively.
Agree(P, R) ==
    /\ Len(Segs(P)) = Len(Segs(R))
    /\ \A i \in 1..Len(Segs(P)) :
           IsParamSeg(Segs(P)[i]) \/ Segs(P)[i] = Segs(R)[i]

\* The routes of request r's method, and those whose pattern agrees with
\* its path.
RoutesFor(r) == routes[reqMethod[r]]
Agreeing(r) == {k \in 1..Len(RoutesFor(r)) : Agree(RoutesFor(r)[k].pattern, reqPath[r])}

\* The route whose handler matchRoute returned for request r.
MatchedRoute(r) ==
    CHOOSE k \in 1..Len(RoutesFor(r)) : RoutesFor(r)[k].handler = handler[r]

\* The parameter segments of P.
ParamSegs(P) == {i \in 1..Len(Segs(P)) : IsParamSeg(Segs(P)[i])}

\* The parameter segments of P that are the last to carry their name.
LastOfName(P) ==
    {i \in ParamSegs(P) :
        \A j \in ParamSegs(P) :
            ParamName(Segs(P)[j]) = ParamName(Segs(P)[i]) => j <= i}

\* The mapping binds the parameter of segment i of P to R's segment i.
Binds(m, P, R, i) ==
    /\ ~m.isNil
    /\ ParamName(Segs(P)[i]) \in DOMAIN m.kv
    /\ m.kv[ParamName(Segs(P)[i])] = Segs(R)[i]

\* C11 as stated: a pattern with as many segments as the path matches iff
\* its non-parameter segments equal the path's, and on a match the returned
\* mapping binds every parameter segment of the pattern to the path's
\* corresponding segment.
C11_BindsEach ==
    Dispatched(1) =>
        /\ Matched(1) <=> Agreeing(1) # {}
        /\ Matched(1) =>
               LET P == RoutesFor(1)[MatchedRoute(1)].pattern
               IN \A i \in ParamSegs(P) : Binds(ctxParams[1], P, reqPath[1], i)

\* C11: a pattern with as many segments as the path matches iff its
\* non-parameter segments equal the path's, case-sensitively, and on a match
\* the returned mapping binds each parameter name of the pattern to the
\* path's segment at the last parameter segment that carries the name.
C11_Match ==
    Dispatched(1) =>
        /\ Matched(1) <=> Agreeing(1) # {}
        /\ Matched(1) =>
               LET P == RoutesFor(1)[MatchedRoute(1)].pattern
               IN /\ Agree(P, reqPath[1])
                  /\ \A i \in LastOfName(P) : Binds(ctxParams[1], P, reqPath[1], i)
                  /\ DOMAIN ctxParams[1].kv =
                         {ParamName(Segs(P)[i]) : i \in ParamSegs(P)}

\* The pattern that names one parameter in both of its segments matched a
\* two-segment path, and the name is bound to the path's second segment.
C11_Witness ==
    /\ Matched(1)
    /\ RoutesFor(1)[MatchedRoute(1)].pattern = PatTwice
    /\ Segs(reqPath[1]) = <<<<"a">>, <<"b">>>>
    /\ ctxParams[1].kv[<<"x">>] = <<"b">>

\* The first route, in registration order, whose pattern agrees with the path.
FirstAgreeing(r) == CHOOSE k \in Agreeing(r) : \A j \in Agreeing(r) : k <= j

\* C12: when two or more patterns registered under the request's method
\* match the path, the handler and the bindings returned are those of the
\* pattern registered first.
C12_FirstMatchWins ==
    (Dispatched(1) /\ Cardinality(Agreeing(1)) >= 2) =>
        LET P == RoutesFor(1)[FirstAgreeing(1)].pattern
        IN /\ handler[1] = RoutesFor(1)[FirstAgreeing(1)].handler
           /\ \A i \in LastOfName(P) : Binds(ctxParams[1], P, reqPath[1], i)
           /\ DOMAIN ctxParams[1].kv = {ParamName(Segs(P)[i]) : i \in ParamSegs(P)}

\* /a/:x was registered before /a/b, a request for /a/b got the handler of
\* /a/:x and x bound to b.
C12_Witness ==
    /\ Dispatched(1)
    /\ Agreeing(1) = {1, 2}
    /\ RoutesFor(1)[1].pattern = PatParam
    /\ RoutesFor(1)[2].pattern = PatLit
    /\ handler[1] = RoutesFor(1)[1].handler
    /\ ctxParams[1].kv[<<"x">>] = <<"b">>

\* ------------------------------------------------------------ writer model

\* Largest number of operations in a route handler body of the writer model.
MaxWrites == 2

\* What a handler of the writer model does in one step: set a status, write
\* body bytes, or call its continuation.
WriterOps ==
    {Op("wh", StatusOK), Op("wh", StatusNotFound), Op("write", 0), Op("next", 0)}

\* The handler bodies of at most MaxWrites such steps.
WriterScripts == UNION {[1..n -> WriterOps] : n \in 0..MaxWrites}

\* One request to a route whose handler makes any sequence of writer calls,
\* with the cancellation signal free to fire.
NextWriter ==
    \/ ~serving /\ \E s \in WriterScripts : GET(PathA, s, 1)
    \/ Listen
    \/ \E e \in BOOLEAN : Dispatch(1, "GET", PathA, e)
    \/ ExecTimeout(1)
    \/ ExecInvoke(1)
    \/ ExecSkip(1)
    \/ CallNext(1)
    \/ WriteHeader(1)
    \/ Write(1)
    \/ UnitReturn(1)
    \/ Return(1)
    \/ Expire(1)

SpecWriter == Init /\ [][NextWriter]_vars

\* A step of request r that calls WriteHeader or Write on its ResponseWriter.
WriterCall(r) == WriteHeader(r) \/ Write(r) \/ ExecTimeout(r)

\* C13: the written flag is false when the ResponseWriter is created, is
\* true after every WriteHeader or Write call, and no step ever returns it
\* to false.
C13_WrittenMonotone ==
    /\ [](pc[1] = "idle" => ~written[1])
    /\ [][/\ written[1] => written'[1]
          /\ WriterCall(1) => written'[1]]_vars

\* The handler wrote body bytes and then set a status, and the request is
\* over with the flag still set.
C13_Witness ==
    /\ pc[1] = "done"
    /\ handler[1].script = <<Op("write", 0), Op("wh", StatusNotFound)>>
    /\ written[1]

\* C14: once a WriteHeader call has set the status, the value returned by
\* Status() never changes for the rest of the request.
C14_StatusLatched == [][status[1] # 0 => status'[1] = status[1]]_vars

\* C15: whenever Written() is true, Status() is the status code committed to
\* the transport writer.
C15_StatusIsCommitted == written[1] => status[1] = twStatus[1]

\* ------------------------------------------------------------ recovery model

\* Largest number of global middleware registered in the recovery model.
MaxMwErr == 2

\* Middleware of the recovery model: one that marks, one that panics, the
\* error-handling middleware with the default and with a custom handler, and
\* Recovery.
ErrMwScripts ==
    {Wrap, MwPanic, ErrorHandlerMiddleware(EhNil),
     ErrorHandlerMiddleware(EhCustom), Recovery}

\* Route handlers of the recovery model.
ErrHScripts == {HPanic, HPanicErr, WritePanic, HNext}

\* One request on an App whose chain may hold recovering middleware and
\* panicking units.
NextErr ==
    \/ ~serving /\ \E s \in ErrMwScripts : Use(s, MaxMwErr)
    \/ ~serving /\ \E s \in ErrHScripts : GET(PathA, s, 1)
    \/ Listen
    \/ Dispatch(1, "GET", PathA, FALSE)
    \/ ExecInvoke(1)
    \/ ExecSkip(1)
    \/ Mark(1)
    \/ CallNext(1)
    \/ Send(1)
    \/ Defer(1)
    \/ Recover(1)
    \/ Panic(1)
    \/ UnitReturn(1)
    \/ Return(1)

SpecErr == Init /\ [][NextErr]_vars

\* The unit at position p of request r's chain.
UnitAt(r, p) == SliceAt(heap, mws[r], p)

\* What the unit defers, -1 when it defers nothing.
DefersFn(u) ==
    IF \E k \in 1..Len(u.script) : u.script[k].op = "defer"
    THEN u.script[CHOOSE k \in 1..Len(u.script) : u.script[k].op = "defer"].arg
    ELSE -1

\* The value the unit panics with.
PanicArg(u) == u.script[CHOOSE k \in 1..Len(u.script) : u.script[k].op = "panic"].arg

\* The position of the last recovering middleware before position p, -1 when
\* there is none.
Nearest(r, p) ==
    IF \E k \in 0..(p - 1) : DefersFn(UnitAt(r, k)) # -1
    THEN CHOOSE k \in 0..(p - 1) :
             /\ DefersFn(UnitAt(r, k)) # -1
             /\ \A j \in (k + 1)..(p - 1) : DefersFn(UnitAt(r, j)) = -1
    ELSE -1

\* The positions of the ErrorHandlerMiddleware units before position p.
HandlersBefore(r, p) ==
    {k \in 0..(p - 1) : DefersFn(UnitAt(r, k)) \in {EhDefault, EhCustom}}

HandlerName(fn) == IF fn = EhDefault THEN "DefaultErrorHandler" ELSE "errorHandler"

\* The indices of the panics recorded for request r.
PanicsAt(r) == {t \in 1..Len(trace[r]) : trace[r][t][1] = "panic"}

\* The handle events recorded for the ErrorHandlerMiddleware at position k.
HandledBy(r, k) ==
    {t \in 1..Len(trace[r]) : trace[r][t][1] = "handle" /\ trace[r][t][4] = k}

\* Every Wrap middleware before position k has run the code after its
\* continuation.
AfterRan(r, k) ==
    \A j \in 0..(k - 1) :
        UnitAt(r, j).script = Wrap =>
            \E t \in 1..Len(trace[r]) : trace[r][t] = <<"after", "mw", j + 1, j>>

\* The step in which the recovering function of kind name has run.
RecoveredStep(name) ==
    /\ Len(trace'[1]) = Len(trace[1]) + 2
    /\ trace'[1][Len(trace'[1])][2] = name

\* A panic at position p is recovered by the ErrorHandlerMiddleware at
\* position k: its handler is called exactly once, with the panic value
\* converted to an error; the panic does not leave ServeHTTP; the units
\* before k have run their post-continuation code when ServeHTTP returns.
HandledAt(r, t, k) ==
    LET p == trace[r][t][4]
    IN /\ HandledBy(r, k) = {t + 1}
       /\ trace[r][t + 1] =
              <<"handle", HandlerName(DefersFn(UnitAt(r, k))),
                ToError(PanicArg(UnitAt(r, p))), k>>
       /\ pc[r] # "panicked"
       /\ pc[r] = "done" => AfterRan(r, k)

\* C16 as stated: a panic after an ErrorHandlerMiddleware at position k is
\* recovered by it as HandledAt says, and with h = nil the response status
\* is 500.
C16_AsStated ==
    /\ [](\A t \in PanicsAt(1) :
             \A k \in HandlersBefore(1, trace[1][t][4]) : HandledAt(1, t, k))
    /\ [][RecoveredStep("DefaultErrorHandler") =>
              twStatus'[1] = StatusInternalServerError]_vars

\* C16: a panic raised after position k is recovered by the
\* ErrorHandlerMiddleware at k when no other recovering middleware stands
\* between k and the panicking unit: h is called exactly once with the panic
\* value converted to an error, the panic does not leave ServeHTTP, the units
\* before k run their post-continuation code; with h = nil the
\* DefaultErrorHandler writes status 500 when nothing has been written, and
\* leaves the response as it is otherwise.
C16_Recovered ==
    /\ [](\A t \in PanicsAt(1) :
             LET k == Nearest(1, trace[1][t][4])
             IN (k # -1 /\ DefersFn(UnitAt(1, k)) \in {EhDefault, EhCustom})
                    => HandledAt(1, t, k))
    /\ [][RecoveredStep("DefaultErrorHandler") =>
              IF written[1]
              THEN UNCHANGED <<written, status, twStatus>>
              ELSE /\ twStatus'[1] = StatusInternalServerError
                   /\ status'[1] = StatusInternalServerError
                   /\ written'[1]]_vars

\* Wrap, then ErrorHandlerMiddleware(nil), then a handler that panics: the
\* panic was handled by DefaultErrorHandler, the response is 500 and Wrap has
\* run its code after next().
C16_Witness ==
    /\ pc[1] = "done"
    /\ Len(trace[1]) >= 2
    /\ \E t \in PanicsAt(1) :
           /\ trace[1][t][4] = 2
           /\ trace[1][t + 1] = <<"handle", "DefaultErrorHandler", ToError(PanicString), 1>>
    /\ trace[1][Len(trace[1])] = <<"after", "mw", 1, 0>>
    /\ twStatus[1] = StatusInternalServerError

\* The indices of the recoveries Recovery reported for request r.
RecoveredAt(r) == {t \in 1..Len(trace[r]) : trace[r][t][1] = "recovered"}

\* Every panic whose innermost recovering middleware is Recovery has been
\* recovered by it and has not left ServeHTTP.
RecoveryCatches(r) ==
    \A t \in PanicsAt(r) :
        LET k == Nearest(r, trace[r][t][4])
        IN (k # -1 /\ DefersFn(UnitAt(r, k)) = RecoveryFn)
               => /\ t + 1 \in RecoveredAt(r)
                  /\ trace[r][t + 1][4] = k
                  /\ pc[r] # "panicked"

\* C17 as stated: after a panic recovered by Recovery the response has
\* status 500, whatever the panicking unit did before.
C17_Always500 ==
    /\ RecoveryCatches(1)
    /\ RecoveredAt(1) # {} => twStatus[1] = StatusInternalServerError

\* C17: Recovery recovers every panic raised downstream of it with no other
\* recovering middleware in between; the response has status 500 when
\* nothing was committed before the panic, and keeps the status committed
\* first otherwise.
C17_Recovery500 ==
    /\ []RecoveryCatches(1)
    /\ [][RecoveredStep("Recovery") =>
              twStatus'[1] = IF twStatus[1] = 0 THEN StatusInternalServerError
                             ELSE twStatus[1]]_vars

\* Below Recovery a handler sent 200 and then panicked: the panic was
\* recovered, Recovery wrote 500, the client keeps 200.
C17_Witness ==
    /\ pc[1] = "done"
    /\ RecoveredAt(1) # {}
    /\ handler[1].script = WritePanic
    /\ status[1] = StatusInternalServerError
    /\ twStatus[1] = StatusOK

\* ------------------------------------------------------------ static model

\* Largest number of global middleware registered in the static model.
MaxMwStatic == 2
\* Largest number of routes registered in the static model.
MaxRoutesStatic == 1

\* One request on an App with the static middleware, marking middleware and
\* a route under or outside the static prefix.
NextStatic ==
    \/ ~serving /\ Static(MaxMwStatic)
    \/ ~serving /\ Use(Wrap, MaxMwStatic)
    \/ ~serving /\ \E p \in StaticPaths, s \in {Plain, HNext} : GET(p, s, MaxRoutesStatic)
    \/ Listen
    \/ \E p \in StaticPaths : Dispatch(1, "GET", p, FALSE)
    \/ InvokeNotFound(1)
    \/ ExecInvoke(1)
    \/ ExecSkip(1)
    \/ Mark(1)
    \/ CallNext(1)
    \/ Send(1)
    \/ WriteHeader(1)
    \/ Write(1)
    \/ StaticServe(1)
    \/ StaticPass(1)
    \/ UnitReturn(1)
    \/ Return(1)

SpecStatic == Init /\ [][NextStatic]_vars

\* App.Static has been called.
StaticRegistered == \E j \in 1..Len(Registered) : Registered[j].script = StaticMw

\* The request was handed to the file server.
FileServed(r) == EventsOf(r, "fileserver") # <<>>

\* The static middleware ran for request r and called its continuation.
StaticPassed(r) ==
    \E j \in 1..Len(Registered) :
        /\ Registered[j].script = StaticMw
        /\ j - 1 \in StartedPos(r)
        /\ j \in StartedPos(r)

\* C18: after app.Static(prefix, dir), a request whose path starts with
\* prefix has been handed to the file server when ServeHTTP returns, whether
\* or not a route matches it, and a request whose path does not start with
\* prefix is never handed to it: the static middleware that runs for it goes
\* on by its continuation.
C18_StaticServes ==
    (StaticRegistered /\ pc[1] = "done") =>
        IF HasPrefix(reqPath[1], StaticPrefix)
        THEN FileServed(1)
        ELSE /\ ~FileServed(1)
             /\ Matched(1) => StaticPassed(1)

\* ------------------------------------------------------------ composition model

\* Largest number of global middleware registered in the composition model.
MaxMwWith == 1
\* Largest number of middleware given to WithMiddleware.
MaxInner == 2

\* The middleware lists given to WithMiddleware: marking middleware and the
\* failed authentication check, in any order.
InnerLists == UNION {[1..n -> {Wrap, Deny}] : n \in 0..MaxInner}

\* One request to a route registered with WithMiddleware(h, m1, ..., mn) on an
\* App with marking global middleware.
NextWith ==
    \/ ~serving /\ Use(Wrap, MaxMwWith)
    \/ ~serving /\ \E h \in {Plain, HNext}, ms \in InnerLists : GET(PathA, WithMiddleware(h, ms), 1)
    \/ Listen
    \/ Dispatch(1, "GET", PathA, FALSE)
    \/ ExecInvoke(1)
    \/ ExecSkip(1)
    \/ Mark(1)
    \/ CallNext(1)
    \/ Send(1)
    \/ WithEnter(1)
    \/ InnerInvoke(1)
    \/ InnerCallOuter(1)
    \/ UnitReturn(1)
    \/ Return(1)

SpecWith == Init /\ [][NextWith]_vars

\* The chain m1, ..., mn, h given to WithMiddleware for request r's route.
FullOf(r) == handler[r].script[1].arg

\* How many units of that chain run: up to and including the first one that
\* does not call its continuation.
RunCount(full) ==
    IF \E j \in 1..Len(full) : ~HasNext(full[j])
    THEN CHOOSE j \in 1..Len(full) :
             ~HasNext(full[j]) /\ \A k \in 1..(j - 1) : HasNext(full[k])
    ELSE Len(full)

\* The units in the order they are to start: the global middleware, the
\* composed unit, then the first c units of m1, ..., mn, h.
ExpectedStarts(r, c) ==
    LET g == middleware.len
        full == FullOf(r)
    IN [k \in 1..g |-> <<"start", "mw", k, k - 1>>]
       \o <<<<"start", "h", handler[r].n, g>>>>
       \o [j \in 1..c |->
              <<"start", IF j = Len(full) THEN "wh" ELSE "wm", j, g>>]

\* The continuation passed to the composed unit has been invoked.
OuterNextCalled(r) == EventsOf(r, "next") # <<>>

\* C19: for a route registered with WithMiddleware(h, m1, ..., mn) a matched
\* request starts the global middleware, then m1..mn in the given order, then
\* h; the units after an mi that does not call its continuation never start;
\* the continuation passed to the composed unit is invoked only if h runs
\* and calls its continuation.
C19_Composed ==
    Matched(1) =>
        LET full == FullOf(1)
            c == RunCount(full)
            want == ExpectedStarts(1, c)
        IN /\ Len(Starts(1)) <= Len(want)
           /\ \A k \in 1..Len(Starts(1)) : Starts(1)[k] = want[k]
           /\ pc[1] = "done" => Starts(1) = want
           /\ OuterNextCalled(1) => (c = Len(full) /\ HasNext(full[Len(full)]))
           /\ (pc[1] = "done" /\ c = Len(full) /\ HasNext(full[Len(full)]))
                  => OuterNextCalled(1)

\* Two middleware were given, the second one refused the request: the first
\* and the second started, the handler did not, and the request is over.
C19_Witness ==
    /\ pc[1] = "done"
    /\ middleware.len = 1
    /\ Len(FullOf(1)) = 3
    /\ FullOf(1)[1] = Wrap
    /\ FullOf(1)[2] = Deny
    /\ Starts(1) = <<<<"start", "mw", 1, 0>>, <<"start", "h", 1, 1>>,
                     <<"start", "wm", 1, 1>>, <<"start", "wm", 2, 1>>>>

\* ------------------------------------------------------------ store model

\* Largest number of Set and SetValue calls made on one context.
MaxSets == 2

\* One request whose context is written and read with any keys and values.
NextStore ==
    \/ ~serving /\ GET(PathA, Plain, 1)
    \/ Listen
    \/ Dispatch(1, "GET", PathA, FALSE)
    \/ \E k \in Keys, v \in Values : CtxSet(1, k, v, MaxSets)
    \/ \E T \in Types, k \in Keys, v \in Values : SetValue(1, T, k, v, MaxSets)
    \/ \E k \in Keys : CtxGet(1, k)
    \/ \E T \in Types, k \in Keys : GetValue(1, T, k)

SpecStore == Init /\ [][NextStore]_vars

\* The Set calls on key among the first n of request r, in order.
SetsOf(r, key, n) ==
    SelectSeq(SubSeq(setLog[r], 1, n), LAMBDA e : e[1] = key)

\* The key had been set when the result was taken, and the value last set.
WasSet(r) == SetsOf(r, got[r].key, got[r].at) # <<>>
LastSet(r) ==
    SetsOf(r, got[r].key, got[r].at)[Len(SetsOf(r, got[r].key, got[r].at))][2]

\* C20: the store is a last-write-wins map: Get(k) returns the value of the
\* most recent Set of k with true, and (nil, false) when k was never set;
\* GetValue[T](k) returns (v, true) when k was set and the value last set has
\* type T, and (zero, false) otherwise.
C20_LastWriteWins ==
    /\ got[1].op = "Get" =>
           IF WasSet(1)
           THEN got[1].val = LastSet(1) /\ got[1].ok
           ELSE got[1].val = NilValue /\ ~got[1].ok
    /\ got[1].op = "GetValue" =>
           IF WasSet(1) /\ LastSet(1).t = got[1].T
           THEN got[1].val = LastSet(1) /\ got[1].ok
           ELSE got[1].val = Zero(got[1].T) /\ ~got[1].ok

\* A key was set to an int and then to a string: GetValue[int] of it has
\* returned (0, false).
C20_Witness ==
    /\ Len(setLog[1]) = 2
    /\ setLog[1][1] = <<"user", [t |-> "int", v |-> 1]>>
    /\ setLog[1][2] = <<"user", [t |-> "string", v |-> 1]>>
    /\ got[1] = [op |-> "GetValue", key |-> "user", T |-> "int",
                 val |-> Zero("int"), ok |-> FALSE, at |-> 2]

\* ------------------------------------------------------------ method model

\* Largest number of routes registered in the method model.
MaxRoutesMeth == 2

\* The method strings of requests: the registered ones and one that differs
\* from GET by case only.
ReqMethods == AllMethods \cup {"get"}

\* What the units of request r do in the method model.
ServeMeth(r) ==
    \/ InvokeNotFound(r)
    \/ ExecInvoke(r)
    \/ Mark(r)
    \/ CallNext(r)
    \/ Send(r)
    \/ WriteHeader(r)
    \/ Write(r)
    \/ UnitReturn(r)
    \/ Return(r)

\* Routes registered on one path under any of the seven methods and global
\* middleware registered before, between and after two requests with any
\* method string, the second one dispatched when the first has been served.
NextMeth ==
    \/ Quiet /\ GET(PathA, Plain, MaxRoutesMeth)
    \/ Quiet /\ POST(PathA, Plain, MaxRoutesMeth)
    \/ Quiet /\ PUT(PathA, Plain, MaxRoutesMeth)
    \/ Quiet /\ DELETE(PathA, Plain, MaxRoutesMeth)
    \/ Quiet /\ PATCH(PathA, Plain, MaxRoutesMeth)
    \/ Quiet /\ OPTIONS(PathA, Plain, MaxRoutesMeth)
    \/ Quiet /\ HEAD(PathA, Plain, MaxRoutesMeth)
    \/ Quiet /\ Use(PassOn, 1)
    \/ Listen
    \/ \E m \in ReqMethods, p \in Paths : Dispatch(1, m, p, FALSE)
    \/ pc[1] = "done" /\ \E m \in ReqMethods : Dispatch(2, m, PathA, FALSE)
    \/ \E r \in Reqs : ServeMeth(r)

SpecMeth == Init /\ [][NextMeth]_vars

\* The handlers of the routes registered under method m.
HandlersUnder(m) ==
    IF m \in DOMAIN routes
    THEN {routes[m][k].handler : k \in 1..Len(routes[m])}
    ELSE {}

\* Some route registered under method m has a pattern that agrees with path.
AgreesUnder(m, path) ==
    /\ m \in DOMAIN routes
    /\ \E k \in 1..Len(routes[m]) : Agree(routes[m][k].pattern, path)

\* C21: a request gets a handler only from the routes registered under its
\* exact method string, and gets one whenever such a route matches its path;
\* a request whose path matches only under other methods ends as plain not
\* found, status 404.
C21_ExactMethod ==
    /\ [](\A r \in Reqs :
             Dispatched(r) =>
                 /\ Matched(r) => handler[r] \in HandlersUnder(reqMethod[r])
                 /\ (~Matched(r) /\ pc[r] = "done") =>
                        /\ twStatus[r] = StatusNotFound
                        /\ Starts(r) = <<<<"start", "nf", 0, -1>>>>)
    /\ [][\A r \in Reqs :
              (~Dispatched(r) /\ Dispatched(r)') =>
                  (Matched(r)' <=> AgreesUnder(reqMethod'[r], reqPath'[r]))]_vars

\* The path was registered under GET only when a POST request for it was
\* answered as not found; it was then registered under POST, and the next
\* POST request ran that method's handler, and only it.
C21_Witness ==
    /\ pc[1] = "done" /\ pc[2] = "done"
    /\ reqMethod[1] = "POST" /\ reqMethod[2] = "POST"
    /\ reqPath[1] = PathA /\ reqPath[2] = PathA
    /\ ~Matched(1) /\ twStatus[1] = StatusNotFound
    /\ Len(routes["GET"]) = 1 /\ routes["GET"][1].handler.n = 1
    /\ Len(routes["POST"]) = 1 /\ routes["POST"][1].handler.n = 2
    /\ handler[2].n = 2
    /\ StartsOfKind(2, "h") = <<<<"start", "h", 2, middleware.len>>>>
    /\ twStatus[2] = StatusOK

\* ------------------------------------------------------------ registration order

\* The methods whose route list changes in the step.
ChangedMethods == {m \in AllMethods : routes'[m] # routes[m]}

\* The registration numbers of a route list, in list order.
Numbers(rs) == [k \in 1..Len(rs) |-> rs[k].handler.n]

\* C23: each method's route list holds its routes in registration order; a
\* step never removes or reorders a route; a registration appends exactly one
\* route to one method's list and leaves the other lists and the global
\* middleware as they are.
C23_Monotonic ==
    /\ [](\A m \in AllMethods :
             \A j, k \in 1..Len(routes[m]) :
                 j < k => Numbers(routes[m])[j] < Numbers(routes[m])[k])
    /\ [][/\ \A m \in AllMethods :
                 /\ Len(routes'[m]) >= Len(routes[m])
                 /\ SubSeq(routes'[m], 1, Len(routes[m])) = routes[m]
          /\ ChangedMethods # {} =>
                 /\ Cardinality(ChangedMethods) = 1
                 /\ \A m \in ChangedMethods : Len(routes'[m]) = Len(routes[m]) + 1
                 /\ middleware' = middleware
                 /\ heap' = heap]_vars

\* A middleware and two routes under one method have been registered: the
\* method's list holds the routes in the order of registration.
C23_Witness ==
    /\ middleware.len = 1
    /\ Numbers(routes["PUT"]) = <<1, 2>>
    /\ \A m \in AllMethods \ {"PUT"} : routes[m] = <<>>
    /\ serving

\* ------------------------------------------------------------ stop at a boundary

\* The step in which the executor of request 1 handles a step boundary
\* reached with the stopped flag set.
StoppedBoundary ==
    /\ pc[1] = "run"
    /\ call[1] # NoCall
    /\ Stopped[1]
    /\ call'[1] = NoCall

\* C24 as stated: at a step boundary reached with the stopped flag set the
\* chain ends and the executor writes nothing, whatever the state of the
\* cancellation signal.
C24_StoppedSilent ==
    [][StoppedBoundary =>
           /\ stack' = stack
           /\ UNCHANGED <<written, status, twStatus>>]_vars

\* C24: at a step boundary reached with the stopped flag set no unit is
\* invoked; the executor writes nothing when the cancellation signal has not
\* fired, and writes the timeout status when it has.
C24_StoppedEnds ==
    [][StoppedBoundary =>
           /\ stack' = stack
           /\ IF ctxDone[1]
              THEN /\ status'[1] = StatusGatewayTimeout
                   /\ written'[1]
              ELSE UNCHANGED <<written, status, twStatus>>]_vars

\* The first of two units set the stopped flag and called its continuation:
\* the request is over, only that unit ran and nothing was written.
C24_Witness ==
    /\ pc[1] = "done"
    /\ Stopped[1]
    /\ ~TimedOut(1)
    /\ mws[1].len >= 2
    /\ StartedPos(1) = {0}
    /\ ~written[1]
    /\ twStatus[1] = 0

\* ------------------------------------------------------------ repeated continuation

\* Largest number of global middleware registered in the repeated-continuation
\* model.
MaxMwAgain == 2

\* One request on an App whose middleware call their continuation once,
\* twice or three times.
NextAgain ==
    \/ ~serving /\ \E s \in {Wrap, Twice, Thrice} : Use(s, MaxMwAgain)
    \/ ~serving /\ \E s \in {Plain, HNext} : GET(PathA, s, 1)
    \/ Listen
    \/ Dispatch(1, "GET", PathA, FALSE)
    \/ ExecInvoke(1)
    \/ ExecSkip(1)
    \/ Mark(1)
    \/ CallNext(1)
    \/ Send(1)
    \/ UnitReturn(1)
    \/ Return(1)

SpecAgain == Init /\ [][NextAgain]_vars

\* How many times the body calls its continuation.
Calls(script) == Cardinality({k \in 1..Len(script) : script[k].op = "next"})

\* How many times the unit at position p of request r's chain has started.
StartCount(r, p) ==
    Cardinality({t \in 1..Len(trace[r]) :
                    trace[r][t][1] = "start" /\ trace[r][t][4] = p})

\* The middleware at position i calls its continuation several times and
\* every other middleware calls it once.
OnlyRepeater(i) ==
    /\ i < middleware.len
    /\ Calls(Registered[i + 1].script) >= 2
    /\ \A j \in 1..Len(Registered) : j # i + 1 => Calls(Registered[j].script) = 1

\* C25: when the unit at position i calls its continuation k >= 2 times and
\* every other middleware calls it once, then once ServeHTTP has returned
\* every unit after i, the route handler included, has run exactly k times,
\* and the units up to i once.
C25_Reenter ==
    (Matched(1) /\ pc[1] = "done") =>
        \A i \in 0..(middleware.len - 1) :
            OnlyRepeater(i) =>
                \A p \in 0..(mws[1].len - 1) :
                    StartCount(1, p) =
                        IF p > i THEN Calls(Registered[i + 1].script) ELSE 1

\* The first of two middleware called its continuation three times: the
\* second middleware and the handler have each run three times.
C25_Witness ==
    /\ pc[1] = "done"
    /\ middleware.len = 2
    /\ Registered[1].script = Thrice
    /\ Registered[2].script = Wrap
    /\ StartCount(1, 0) = 1
    /\ StartCount(1, 1) = 3
    /\ StartCount(1, 2) = 3

\* ------------------------------------------------------------ no recovery in exec

\* C26: a panic raised at a position with no recovering middleware before it
\* leaves ServeHTTP: nothing is recorded after it (no post-continuation code
\* of an enclosing unit, no start of a later unit), no frame is left, and
\* that holds whatever recovering middleware stands after the panicking unit.
C26_Propagates ==
    \A t \in PanicsAt(1) :
        Nearest(1, trace[1][t][4]) = -1 =>
            /\ pc[1] = "panicked"
            /\ t = Len(trace[1])
            /\ stack[1] = <<>>
            /\ \A p \in StartedPos(1) : p <= trace[1][t][4]

\* A marking middleware, then a middleware that panics before calling its
\* continuation: the panic left ServeHTTP, and the marking middleware never
\* ran the code after next().
C26_Witness ==
    /\ pc[1] = "panicked"
    /\ middleware.len = 2
    /\ Registered[1].script = Wrap
    /\ Registered[2].script = MwPanic
    /\ trace[1][Len(trace[1])] = <<"panic", "mw", 2, 1>>
    /\ EventsOf(1, "after") = <<>>
    /\ StartedPos(1) = {0, 1}

\* C27: DefaultErrorHandler writes status 500 when the written flag is false
\* at the time it is invoked, and otherwise leaves the writer's status and
\* written flag as they are.
C27_DefaultHandler ==
    [][RecoveredStep("DefaultErrorHandler") =>
           IF written[1]
           THEN /\ status'[1] = status[1]
                /\ written'[1] = written[1]
                /\ twStatus'[1] = twStatus[1]
           ELSE /\ status'[1] = StatusInternalServerError
                /\ written'[1]
                /\ twStatus'[1] = StatusInternalServerError]_vars

\* DefaultErrorHandler has handled the panic of a handler that had sent 200:
\* the status is still 200.
C27_Witness ==
    /\ EventsOf(1, "handle") # <<>>
    /\ EventsOf(1, "handle")[1][2] = "DefaultErrorHandler"
    /\ handler[1].script = WritePanic
    /\ status[1] = StatusOK
    /\ twStatus[1] = StatusOK
    /\ written[1]

\* ------------------------------------------------------------ path edge cases

\* Largest number of routes registered in the edge-case model.
MaxRoutesEdge == 2

\* Patterns: the empty string, the root, one literal segment, one parameter
\* name used in both of two segments.
PatEmpty == <<>>
PatRoot == <<"/">>
EdgePatterns == {PatEmpty, PatRoot, PathA, PatTwice}

\* Request paths: empty, the root, one and two segments, with and without a
\* trailing separator, with a doubled leading one and with an empty segment.
EdgePaths ==
    {<<>>, <<"/">>, <<"/", "a">>, <<"/", "a", "/">>, <<"/", "/", "a">>,
     <<"/", "a", "/", "b">>, <<"/", "a", "/", "b", "/">>, <<"/", "a", "/", "/", "b">>}

\* Routes registered with the edge-case patterns, then one request.
NextEdge ==
    \/ ~serving /\ \E p \in EdgePatterns : GET(p, Plain, MaxRoutesEdge)
    \/ Listen
    \/ \E p \in EdgePaths : Dispatch(1, "GET", p, FALSE)

SpecEdge == Init /\ [][NextEdge]_vars

\* The path ends with a separator that follows something else.
HasTrailingSlash(p) == Len(p) >= 2 /\ p[Len(p)] = "/"
WithoutTrailingSlash(p) == SubSeq(p, 1, Len(p) - 1)

\* C28 as stated: a request path that differs from a matching path only by a
\* trailing separator is not matched by the pattern.
C28_NoTrailingSlash ==
    (Dispatched(1) /\ HasTrailingSlash(reqPath[1])
       /\ matchRoute(routes, reqMethod[1], WithoutTrailingSlash(reqPath[1])).handler # NilFunc)
        => ~Matched(1)

\* C28: separators at the end of a request path are stripped before the
\* path is split, so the path with a trailing separator has the segments,
\* the handler and the bindings of its form without that separator; only
\* the number of segments left after stripping decides what can match.
C28_TrailingSlashIgnored ==
    (Dispatched(1) /\ HasTrailingSlash(reqPath[1])) =>
        LET m == matchRoute(routes, reqMethod[1], WithoutTrailingSlash(reqPath[1]))
        IN /\ Segs(reqPath[1]) = Segs(WithoutTrailingSlash(reqPath[1]))
           /\ handler[1] = m.handler
           /\ Matched(1) => ctxParams[1] = m.params
           /\ Matched(1) =>
                  Len(Segs(RoutesFor(1)[MatchedRoute(1)].pattern)) = Len(Segs(reqPath[1]))

\* /a/ was requested with the pattern /a registered: the route was matched.
C28_Witness ==
    /\ Matched(1)
    /\ reqPath[1] = <<"/", "a", "/">>
    /\ routes["GET"][1].pattern = PathA
    /\ handler[1] = routes["GET"][1].handler

\* The parameter segments of P that carry the name of segment i.
SameName(P, i) ==
    {j \in ParamSegs(P) : ParamName(Segs(P)[j]) = ParamName(Segs(P)[i])}

\* The routes of request r's method whose pattern has no segments.
ZeroSegRoutes(r) ==
    {k \in 1..Len(RoutesFor(r)) : Segs(RoutesFor(r)[k].pattern) = <<>>}

Rightmost(S) == CHOOSE i \in S : \A j \in S : j <= i
Leftmost(S) == CHOOSE i \in S : \A j \in S : i <= j

\* C29: a pattern that repeats a parameter name matches like any other, and
\* the mapping then holds for the name the path's segment at the rightmost
\* segment carrying it; the first route whose pattern has no segments is the
\* one matched exactly when the request path has no segments.
C29_EdgeCases ==
    Dispatched(1) =>
        /\ \A k \in Agreeing(1) :
               (\A j \in Agreeing(1) : k <= j) =>
                   LET P == RoutesFor(1)[k].pattern
                   IN /\ handler[1] = RoutesFor(1)[k].handler
                      /\ \A i \in ParamSegs(P) :
                             /\ ParamName(Segs(P)[i]) \in DOMAIN ctxParams[1].kv
                             /\ ctxParams[1].kv[ParamName(Segs(P)[i])] =
                                    Segs(reqPath[1])[Rightmost(SameName(P, i))]
        /\ ZeroSegRoutes(1) # {} =>
               (handler[1] = RoutesFor(1)[Leftmost(ZeroSegRoutes(1))].handler
                    <=> Segs(reqPath[1]) = <<>>)

\* With a zero-segment pattern registered first and the pattern /:x/:x
\* second, the path /a/b matched the second and x is bound to b.
C29_Witness ==
    /\ Matched(1)
    /\ Len(routes["GET"]) = 2
    /\ 1 \in ZeroSegRoutes(1)
    /\ routes["GET"][2].pattern = PatTwice
    /\ handler[1] = routes["GET"][2].handler
    /\ reqPath[1] = <<"/", "a", "/", "b">>
    /\ ctxParams[1].kv[<<"x">>] = <<"b">>

\* ------------------------------------------------------------ route groups

\* Largest numbers of middleware and of routes in the group model.
MaxMwGroup == 2
MaxRoutesGroup == 1

\* One request on an App with global middleware, middleware of the group
\* /g (marking, refusing or recovering), routes of the group and routes
\* outside it, some with a handler that panics.
NextGroup ==
    \/ ~serving /\ \E s \in {Wrap, Deny} : Use(s, MaxMwGroup)
    \/ ~serving /\ \E s \in {Wrap, Deny, Recovery} : GroupUse(s, MaxMwGroup)
    \/ ~serving /\ \E p \in {PathA, PathGa}, s \in {Plain, HNext, HPanic} : GET(p, s, MaxRoutesGroup)
    \/ ~serving /\ \E s \in {Plain, HNext} : GroupGET(PathX, s, MaxRoutesGroup)
    \/ ~serving /\ GroupPOST(PathX, Plain, MaxRoutesGroup)
    \/ Listen
    \/ \E m \in Methods, p \in GroupPaths : Dispatch(1, m, p, FALSE)
    \/ InvokeNotFound(1)
    \/ ExecInvoke(1)
    \/ ExecSkip(1)
    \/ GroupInvoke(1)
    \/ GroupPass(1)
    \/ Mark(1)
    \/ CallNext(1)
    \/ Send(1)
    \/ WriteHeader(1)
    \/ Write(1)
    \/ Defer(1)
    \/ Recover(1)
    \/ Panic(1)
    \/ UnitReturn(1)
    \/ Return(1)

SpecGroup == Init /\ [][NextGroup]_vars

\* The registered middleware that are guards of Group.Use.
IsGuard(u) == u.script # <<>> /\ u.script[1].op = "group"
Guards == {j \in 1..Len(Registered) : IsGuard(Registered[j])}

\* The guard registered j-th has called the middleware it wraps.
InvokedMw(r, j) ==
    \E t \in 1..Len(trace[r]) : trace[r][t] = Event("invoke", Registered[j], j - 1)

\* How many times it has done so.
InvokeCount(r, j) ==
    Cardinality({t \in 1..Len(trace[r]) :
                    trace[r][t] = Event("invoke", Registered[j], j - 1)})

\* The guard registered j-th is running and has not yet tested the path.
AtTest(r, j) ==
    /\ stack[r] # <<>>
    /\ Top(r).unit = Registered[j]
    /\ Top(r).ip = 1

\* The executor has called the guard registered j-th and the guard has
\* tested the path.
Tested(r, j) == StartCount(r, j - 1) >= 1 /\ ~AtTest(r, j)

\* What the units of request r have done that a client or a later unit can
\* observe.
Effects(r) == <<written[r], status[r], twStatus[r], Stopped[r], trace[r], store[r]>>

\* C30: the middleware wrapped by Group.Use is called only for matched
\* requests whose path has the prefix as a string prefix, and once the
\* executor has reached its guard it is called exactly once if the path has
\* the prefix and never otherwise; on a path without the prefix the guard's
\* only act is one call of its continuation, which starts the next position
\* of the chain once and changes nothing a client or a unit can observe, so
\* that a panic further down is not recovered by the wrapped middleware;
\* every registration, of a group or not, appends to the global list, and a
\* unit runs at the chain position of its registration.
C30_GroupScope ==
    /\ [](Dispatched(1) =>
            \A j \in Guards :
                /\ InvokedMw(1, j) => Matched(1) /\ HasPrefix(reqPath[1], GroupPrefix)
                /\ Tested(1, j) =>
                       /\ Matched(1)
                       /\ InvokeCount(1, j) =
                              (IF HasPrefix(reqPath[1], GroupPrefix) THEN 1 ELSE 0)
                /\ (Tested(1, j) /\ ~HasPrefix(reqPath[1], GroupPrefix)) =>
                       /\ \/ StartCount(1, j) = 0 /\ call[1] = j
                          \/ StartCount(1, j) = 1
                       /\ \A t \in 1..Len(trace[1]) :
                              (trace[1][t][2] = "mw" /\ trace[1][t][3] = j)
                                  => trace[1][t][1] = "start"
                       /\ \A t \in 1..Len(trace[1]) :
                              trace[1][t][1] \in {"recovered", "handle", "log"}
                                  => trace[1][t][4] # j - 1
                       /\ (PanicsAt(1) # {} /\ Guards = 1..Len(Registered))
                              => pc[1] = "panicked")
    /\ [](\A t \in 1..Len(trace[1]) :
              trace[1][t][2] = "mw" => trace[1][t][4] = trace[1][t][3] - 1)
    /\ [][\A j \in Guards :
              (AtTest(1, j) /\ call[1] = NoCall /\ pc[1] = "run"
                 /\ ~HasPrefix(reqPath[1], GroupPrefix) /\ stack' # stack)
                  => /\ call'[1] = j
                     /\ Effects(1)' = Effects(1)
                     /\ Len(stack'[1]) = Len(stack[1])
                     /\ Top(1)'.ip > Len(Top(1).unit.script)]_vars
    /\ [][middleware' # middleware =>
              /\ Len(Registered') = Len(Registered) + 1
              /\ SubSeq(Registered', 1, Len(Registered)) = Registered
              /\ Registered'[Len(Registered')].n = Len(Registered')]_vars

\* A request outside the group went through a guard that wraps a refusing
\* middleware, registered between two global middleware positions, and was
\* answered by its route handler.
C30_Witness ==
    /\ pc[1] = "done"
    /\ Matched(1)
    /\ reqPath[1] = PathA
    /\ Len(Registered) = 2
    /\ Registered[1].script = Wrap
    /\ Registered[2].script = GroupGuard(Deny)
    /\ Tested(1, 2)
    /\ ~InvokedMw(1, 2)
    /\ StartCount(1, 2) = 1
    /\ status[1] = StatusOK

\* ------------------------------------------------------------ panic log model

\* Largest number of global middleware registered in the panic log model.
MaxMwLog == 1

\* Values given to SilentMode: unset, the two documented ones, and one that
\* differs from "true" by case only.
SilentModes == {"", "true", "false", "TRUE"}

\* Middleware and route handlers of the panic log model.
LogMwScripts ==
    {Wrap, ErrorHandlerMiddleware(EhNil), ErrorHandlerMiddleware(EhCustom), Recovery}
LogHScripts ==
    {HPanic, WritePanic, WithErrorHandling(HPanicErr, EhNil),
     WithErrorHandling(WritePanic, EhCustom), WithErrorHandling(HNext, EhNil)}

\* The process may be a test binary or a server.
InitLog ==
    /\ InitApp
    /\ SilentMode = ""
    /\ Args0 \in ProgNames

\* One request on an App with recovering middleware or a recovering handler,
\* in a process whose SilentMode is left alone or assigned, any number of
\* times, before or after the request is served.
NextLog ==
    \/ Quiet /\ \E v \in SilentModes : SetSilentMode(v)
    \/ ~serving /\ \E s \in LogMwScripts : Use(s, MaxMwLog)
    \/ ~serving /\ \E s \in LogHScripts : GET(PathA, s, 1)
    \/ Listen
    \/ Dispatch(1, "GET", PathA, FALSE)
    \/ ExecInvoke(1)
    \/ ExecSkip(1)
    \/ Mark(1)
    \/ CallNext(1)
    \/ Send(1)
    \/ Defer(1)
    \/ Recover(1)
    \/ Panic(1)
    \/ UnitReturn(1)
    \/ Return(1)

SpecLog == InitLog /\ [][NextLog]_vars

\* The mode in which the claim says nothing is logged.
Silent == SilentMode = "true" \/ (SilentMode = "" /\ Args0 = ProgTest)

\* The calls of an error handler and the 'Panic recovered' lines recorded.
HandlesAt(r) == {t \in 1..Len(trace[r]) : trace[r][t][1] = "handle"}
LogsAt(r) == {t \in 1..Len(trace[r]) : trace[r][t][1] = "log"}

\* The position of the innermost unit at or before position p that defers a
\* recovering function, -1 when there is none.
NearestAt(r, p) ==
    IF DefersFn(UnitAt(r, p)) # -1 THEN p ELSE Nearest(r, p)

\* The 'Panic recovered' line is printed before the handler is called, for
\* the same error and the same recovering unit, and never without a call of
\* the handler.
LogBeforeHandle(r) ==
    /\ \A t \in HandlesAt(r) :
           /\ t > 1
           /\ trace[r][t - 1][1] = "log" =>
                  /\ trace[r][t - 1][3] = trace[r][t][3]
                  /\ trace[r][t - 1][4] = trace[r][t][4]
    /\ \A t \in LogsAt(r) : t + 1 \in HandlesAt(r)

\* In the step that calls an error handler the line is printed exactly when
\* the mode, as it is at that moment, is not silent.
LogFollowsMode(r) ==
    \A t \in 1..Len(trace'[r]) :
        (t > Len(trace[r]) /\ trace'[r][t][1] = "handle") =>
            (trace'[r][t - 1][1] = "log" <=> ~Silent)

\* Every panic whose innermost recovering unit is an ErrorHandlerMiddleware
\* or a WithErrorHandling handler has had that unit's error handler called
\* with the panic value as an error, and has not left ServeHTTP.
HandlerInvoked(r) ==
    \A t \in PanicsAt(r) :
        LET p == trace[r][t][4]
            k == NearestAt(r, p)
        IN (k # -1 /\ DefersFn(UnitAt(r, k)) \in {EhDefault, EhCustom}) =>
               /\ \E u \in HandlesAt(r) :
                      /\ u \in {t + 1, t + 2}
                      /\ trace[r][u] =
                             <<"handle", HandlerName(DefersFn(UnitAt(r, k))),
                               ToError(PanicArg(UnitAt(r, p))), k>>
               /\ pc[r] # "panicked"

\* C31 as stated: the line is logged iff the mode is not silent, the handler
\* is called in both modes and the response status is 500.
C31_AsStated ==
    /\ [](/\ LogBeforeHandle(1)
          /\ HandlerInvoked(1)
          /\ HandlesAt(1) # {} => twStatus[1] = StatusInternalServerError)
    /\ [][LogFollowsMode(1)]_vars

\* C31: when a panic is recovered by ErrorHandlerMiddleware or
\* WithErrorHandling, 'Panic recovered' is logged iff SilentMode is neither
\* "true" nor (empty while the program name contains "test"); in both modes
\* the error handler is called, and the response status is 500 when no
\* status had been committed before the panic and the committed one
\* otherwise.
C31_SilentLogOnly ==
    /\ [](LogBeforeHandle(1) /\ HandlerInvoked(1))
    /\ [][LogFollowsMode(1)]_vars
    /\ [][Cardinality(HandlesAt(1)') > Cardinality(HandlesAt(1)) =>
              twStatus'[1] = IF twStatus[1] = 0 THEN StatusInternalServerError
                             ELSE twStatus[1]]_vars

\* In a server binary with SilentMode left empty, a handler wrapped by
\* WithErrorHandling panicked: the line was logged, DefaultErrorHandler was
\* called and the response is 500.
C31_Witness ==
    /\ pc[1] = "done"
    /\ Args0 = ProgServer /\ SilentMode = ""
    /\ handler[1].script = WithErrorHandling(HPanicErr, EhNil)
    /\ \E t \in LogsAt(1) :
           trace[1][t + 1] = <<"handle", "DefaultErrorHandler", PanicError, mws[1].len - 1>>
    /\ twStatus[1] = StatusInternalServerError

\* ------------------------------------------------------------ unmatched requests

\* Largest number of global middleware registered in the not-found model.
MaxMwNf == 2

\* Middleware of the not-found model registered with App.Use: a marking one
\* (as Logger), Recovery and the error-handling middleware.
NfMwScripts == {Wrap, Recovery, ErrorHandlerMiddleware(EhNil)}

\* Requested paths: a registered one, an unregistered one, and an
\* unregistered one under the group's prefix.
NfPaths == {PathA, PathB, PathGa}

\* One request, matched or not, on an App with recovering middleware, group
\* middleware and a not-found handler that may panic and that is set, once or
\* several times, before or after the request is served.
NextNf ==
    \/ ~serving /\ \E s \in NfMwScripts : Use(s, MaxMwNf)
    \/ ~serving /\ GroupUse(Wrap, MaxMwNf)
    \/ ~serving /\ \E p \in {PathA, PathGa}, s \in {Plain, HPanic} : GET(p, s, 1)
    \/ Quiet /\ \E h \in {PanicNotFound, NilFunc} : SetNotFoundHandler(h)
    \/ Listen
    \/ \E p \in NfPaths : Dispatch(1, "GET", p, FALSE)
    \/ InvokeNotFound(1)
    \/ HttpNotFound(1)
    \/ ExecInvoke(1)
    \/ GroupInvoke(1)
    \/ GroupPass(1)
    \/ Mark(1)
    \/ CallNext(1)
    \/ Send(1)
    \/ WriteHeader(1)
    \/ Write(1)
    \/ Defer(1)
    \/ Recover(1)
    \/ Panic(1)
    \/ UnitReturn(1)
    \/ Return(1)

SpecNf == Init /\ [][NextNf]_vars

\* The events of request r that only a unit registered with Use records.
ByMiddleware(r) ==
    {t \in 1..Len(trace[r]) :
        \/ trace[r][t][2] = "mw"
        \/ trace[r][t][1] \in {"invoke", "handle", "recovered", "log"}}

\* C32: for an unmatched request no unit registered with Use and no route
\* handler starts, the executor is never called, and only the not-found
\* outcome happens: the not-found handler set at that moment starts once,
\* or http.NotFound answers when there is none; a panic of the not-found
\* handler is recovered by no middleware and leaves ServeHTTP.
C32_NoMiddlewareOnMiss ==
    /\ [](Unmatched(1) =>
             /\ ByMiddleware(1) = {}
             /\ StartsOfKind(1, "h") = <<>>
             /\ call[1] = NoCall /\ mws[1] = NilSlice
             /\ Len(Starts(1)) <= 1
             /\ \A t \in 1..Len(trace[1]) :
                    trace[1][t][1] = "start" =>
                        (t = 1 /\ trace[1][t][2] = "nf" /\ trace[1][t][4] = -1)
             /\ PanicsAt(1) # {} => pc[1] = "panicked")
    /\ [][(pc[1] = "notfound" /\ pc'[1] # "notfound") =>
              trace'[1] = <<IF NotFoundHandler = NilFunc
                            THEN <<"http.NotFound", "nil", 0, -1>>
                            ELSE Event("start", NotFoundHandler, -1)>>]_vars

\* With Recovery and a group guard registered, a request under the group's
\* prefix matched no route and the not-found handler panicked: the panic
\* left ServeHTTP.
C32_Witness ==
    /\ Unmatched(1)
    /\ reqPath[1] = PathGa
    /\ Len(Registered) = 2
    /\ Registered[1].script = Recovery
    /\ IsGuard(Registered[2])
    /\ NotFoundHandler = PanicNotFound
    /\ pc[1] = "panicked"
    /\ trace[1] = <<<<"start", "nf", 2, -1>>, <<"before", "nf", 2, -1>>,
                    <<"panic", "nf", 2, -1>>>>

\* ------------------------------------------------------------ continuation of the route handler

\* The step in which the executor of request 1 handles the call made by the
\* matched route handler, the last unit of the chain, to its continuation.
TerminalNext ==
    /\ pc[1] = "run"
    /\ Matched(1)
    /\ call[1] = mws[1].len
    /\ call'[1] = NoCall

\* C33 as stated: when the route handler invokes its continuation the
\* executor starts no unit and writes nothing, whether or not the
\* cancellation signal has fired.
C33_TerminalSilent ==
    [][TerminalNext =>
           /\ stack' = stack
           /\ UNCHANGED <<written, status, twStatus>>]_vars

\* C33: when the route handler invokes its continuation the executor starts
\* no unit; it writes nothing if the cancellation signal has not fired, and
\* writes the timeout status if it has, although no unit was waiting to
\* start.
C33_TerminalNext ==
    [][TerminalNext =>
           /\ stack' = stack
           /\ Starts(1)' = Starts(1)
           /\ IF ctxDone[1]
              THEN /\ status'[1] = StatusGatewayTimeout
                   /\ written'[1]
                   /\ twStatus'[1] = IF twStatus[1] = 0 THEN StatusGatewayTimeout
                                     ELSE twStatus[1]
              ELSE UNCHANGED <<written, status, twStatus, trace>>]_vars

\* The route handler sent 200 and called its continuation after the
\* cancellation signal had fired: the executor wrote 504 at the position
\* past the end of the chain.
C33_Witness ==
    /\ pc[1] = "done"
    /\ Matched(1)
    /\ handler[1].script = HNext
    /\ ~expiredAtStart[1]
    /\ trace[1][Len(trace[1])] = <<"timeout", "exec", 0, mws[1].len>>
    /\ status[1] = StatusGatewayTimeout
    /\ twStatus[1] = StatusOK

\* ------------------------------------------------------------ stop inside a composed chain

\* The middleware lists given to WithMiddleware: marking middleware and
\* middleware that set the stopped flag and then call their continuation.
StopLists == UNION {[1..n -> {Wrap, StopNext}] : n \in 0..MaxInner}

\* One request to a route registered with WithMiddleware(h, m1, ..., mn)
\* whose middleware may stop the chain, while the request's scope may expire.
NextWithStop ==
    \/ ~serving /\ Use(Wrap, MaxMwWith)
    \/ ~serving /\ \E h \in {Plain, HNext}, ms \in StopLists : GET(PathA, WithMiddleware(h, ms), 1)
    \/ Listen
    \/ Dispatch(1, "GET", PathA, FALSE)
    \/ ExecTimeout(1)
    \/ ExecInvoke(1)
    \/ ExecSkip(1)
    \/ Mark(1)
    \/ CallNext(1)
    \/ Stop(1)
    \/ Send(1)
    \/ WithEnter(1)
    \/ InnerInvoke(1)
    \/ InnerCallOuter(1)
    \/ UnitReturn(1)
    \/ Return(1)
    \/ Expire(1)

SpecWithStop == Init /\ [][NextWithStop]_vars

\* The step in which a unit of the composed chain other than its first is
\* started by the continuation of its predecessor.
InnerStarted ==
    /\ Len(trace'[1]) = Len(trace[1]) + 1
    /\ LET ev == trace'[1][Len(trace'[1])]
       IN ev[1] = "start" /\ ev[2] \in {"wm", "wh"} /\ ev[3] >= 2

\* C34: inside a chain composed by WithMiddleware no unit is started by its
\* predecessor's continuation once the stopped flag is set or the
\* cancellation signal has fired.
C34_InnerHonoursStop ==
    [][InnerStarted => (~Stopped[1] /\ ~ctxDone[1])]_vars

\* ------------------------------------------------------------ derived timeout scopes

\* Largest number of global middleware registered in the timeout model; each
\* calls WithTimeout at most once, so it also bounds the derived scopes.
MaxMwScope == 2

\* One request on an App whose middleware may call Context.WithTimeout, while
\* the derived timers and the request's own deadline may fire.
NextScope ==
    \/ ~serving /\ \E s \in {Wrap, MwTimeout} : Use(s, MaxMwScope)
    \/ ~serving /\ \E s \in {Plain, HNext} : GET(PathA, s, 1)
    \/ Listen
    \/ Dispatch(1, "GET", PathA, FALSE)
    \/ ExecTimeout(1)
    \/ ExecInvoke(1)
    \/ ExecSkip(1)
    \/ Mark(1)
    \/ CallNext(1)
    \/ Send(1)
    \/ WithTimeout(1)
    \/ \E k \in 1..MaxMwScope : ScopeExpire(1, k)
    \/ \E k \in 1..MaxMwScope : GoroutineEnd(1, k)
    \/ UnitReturn(1)
    \/ Return(1)
    \/ Expire(1)

\* Timers fire when their duration has elapsed and runnable goroutines are
\* scheduled.
SpecScope ==
    /\ Init
    /\ [][NextScope]_vars
    /\ \A k \in 1..MaxMwScope :
           WF_vars(ScopeExpire(1, k)) /\ WF_vars(GoroutineEnd(1, k))

\* The step in which the executor of request 1 handles a step boundary.
Boundary == pc[1] = "run" /\ call[1] # NoCall /\ call'[1] = NoCall

\* The duration of some derived scope of request 1 has elapsed, or the
\* request's original scope is cancelled.
Elapsed == ctxDone[1] \/ \E k \in 1..Len(scopes[1]) : scopes[1][k].fired

\* The goroutine of the k-th WithTimeout of request 1 is blocked.
Waiting(k) == k <= Len(scopes[1]) /\ scopes[1][k].gor = "waiting"

\* C35: at every step boundary reached after the duration of a derived scope
\* has elapsed or the original scope was cancelled no unit starts and 504 is
\* written, and at every other boundary nothing is written; each goroutine
\* started by WithTimeout eventually ends, and has nothing left to wait for
\* once ServeHTTP has released the request's scope.
C35_DerivedScope ==
    /\ [][Boundary =>
              IF Elapsed
              THEN /\ stack' = stack
                   /\ status'[1] = StatusGatewayTimeout /\ written'[1]
                   /\ trace'[1] = Append(trace[1], <<"timeout", "exec", 0, call[1]>>)
              ELSE UNCHANGED <<written, status, twStatus>>]_vars
    /\ [](released[1] => \A k \in 1..MaxMwScope : Waiting(k) => ENABLED GoroutineEnd(1, k))
    /\ \A k \in 1..MaxMwScope : Waiting(k) ~> ~Waiting(k)

\* A middleware derived a scope whose duration elapsed while the request's
\* own scope was live: the executor wrote 504 at the next step boundary
\* instead of starting the route handler, and the goroutine has ended.
C35_Witness ==
    /\ pc[1] = "done"
    /\ ~ctxDone[1]
    /\ Len(scopes[1]) = 1
    /\ scopes[1][1] = [fired |-> TRUE, gor |-> "ended"]
    /\ trace[1] = <<<<"start", "mw", 1, 0>>, <<"timeout", "exec", 0, 1>>>>
    /\ twStatus[1] = StatusGatewayTimeout

\* ------------------------------------------------------------ parameter mapping

\* Largest number of routes registered in the parameter model.
MaxRoutesParams == 2

\* A pattern that binds its first segment before its second, literal one is
\* compared.
PatHead == <<"/", ":", "z", "/", "c">>
ParamPatterns == {PatLit, PatParam, PatTwice, PatHead}

\* One request, matched or not, on an App whose routes bind parameters.
NextParams ==
    \/ ~serving /\ Use(Wrap, 1)
    \/ ~serving /\ \E p \in ParamPatterns, s \in {Plain, HNext} : GET(p, s, MaxRoutesParams)
    \/ Listen
    \/ \E p \in MatchPaths : Dispatch(1, "GET", p, FALSE)
    \/ InvokeNotFound(1)
    \/ ExecInvoke(1)
    \/ ExecSkip(1)
    \/ Mark(1)
    \/ CallNext(1)
    \/ Send(1)
    \/ WriteHeader(1)
    \/ Write(1)
    \/ UnitReturn(1)
    \/ Return(1)

SpecParams == Init /\ [][NextParams]_vars

\* The parameter names of pattern P.
ParamNames(P) == {ParamName(Segs(P)[i]) : i \in ParamSegs(P)}

\* C36: Context.Params is never nil; for a matched request its keys are
\* exactly the parameter names of the matched pattern, each bound to the
\* path's segment at the last segment carrying the name; for an unmatched
\* request it is empty; no step taken after dispatch changes it.
C36_ParamsOfMatch ==
    /\ [](Dispatched(1) =>
            /\ ~ctxParams[1].isNil
            /\ Matched(1) =>
                   LET P == RoutesFor(1)[MatchedRoute(1)].pattern
                   IN /\ DOMAIN ctxParams[1].kv = ParamNames(P)
                      /\ \A i \in LastOfName(P) : Binds(ctxParams[1], P, reqPath[1], i)
            /\ ~Matched(1) => ctxParams[1] = EmptyMap)
    /\ [][Dispatched(1) => ctxParams' = ctxParams]_vars

\* The route /:z/c bound z and was rejected, the route /a/:x after it
\* matched /a/b: the handler has run with x bound and z absent.
C36_Witness ==
    /\ pc[1] = "done"
    /\ Len(routes["GET"]) = 2
    /\ routes["GET"][1].pattern = PatHead
    /\ routes["GET"][2].pattern = PatParam
    /\ reqPath[1] = <<"/", "a", "/", "b">>
    /\ handler[1] = routes["GET"][2].handler
    /\ DOMAIN ctxParams[1].kv = {<<"x">>}
    /\ ctxParams[1].kv[<<"x">>] = <<"b">>
    /\ status[1] = StatusOK

\* ------------------------------------------------------------ context isolation

\* Largest number of global middleware registered in the isolation model.
MaxMwIso == 1

\* What the units of request r do: stop, store a value, write a status and
\* a body, go on.
ServeIso(r) ==
    \/ InvokeNotFound(r)
    \/ ExecInvoke(r)
    \/ ExecSkip(r)
    \/ Mark(r)
    \/ CallNext(r)
    \/ Stop(r)
    \/ Send(r)
    \/ WriteHeader(r)
    \/ Write(r)
    \/ \E v \in Typed("int") : CtxSet(r, "user", v, 1)
    \/ UnitReturn(r)
    \/ Return(r)

\* Two requests, matched or not, served one after the other or at the same
\* time by one App, on which middleware and routes are registered before,
\* between and after the requests, while none is being served.
NextIso ==
    \/ Quiet /\ \E s \in {StopNext, PassOn} : Use(s, MaxMwIso)
    \/ Quiet /\ GET(PathA, Plain, 1)
    \/ Listen
    \/ \E r \in Reqs, p \in Paths : Dispatch(r, "GET", p, FALSE)
    \/ \E r \in Reqs : ServeIso(r)

SpecIso == Init /\ [][NextIso]_vars

\* The part of request r's context that its units change, and the position
\* of the flow processing r.
CtxOf(r) == <<Stopped[r], store[r], written[r], status[r], twStatus[r]>>
FlowOf(r) == <<pc[r], call[r], stack[r], setLog[r]>>

\* C37: a request is dispatched with a context whose stopped flag and
\* written flag are false, whose status is 0 and whose store is empty, and
\* a step of the flow of one request leaves the stopped flag, store, written
\* flag and status of every other request as they are.
C37_Isolated ==
    /\ [][\A r \in Reqs :
              (pc[r] = "idle" /\ pc'[r] # "idle") =>
                  /\ ~Stopped'[r] /\ ~written'[r]
                  /\ status'[r] = 0 /\ twStatus'[r] = 0
                  /\ store'[r] = NilStore]_vars
    /\ [][\A r \in Reqs : \A q \in Reqs \ {r} :
              FlowOf(r)' # FlowOf(r) => CtxOf(q)' = CtxOf(q)]_vars
    /\ [][\A r \in Reqs : CtxOf(r)' # CtxOf(r) => FlowOf(r)' # FlowOf(r)]_vars

\* Request 1 stopped its chain and stored a value while request 2 was being
\* served; request 2 went through the same middleware and was answered by
\* the route handler, with an empty store.
C37_Witness ==
    /\ pc[1] = "done" /\ pc[2] = "done"
    /\ Len(Registered) = 1 /\ Registered[1].script = StopNext
    /\ reqPath[1] = PathA /\ reqPath[2] = PathB
    /\ Stopped[1] /\ ~Stopped[2]
    /\ ~store[1].isNil /\ store[2] = NilStore
    /\ ~written[1] /\ status[1] = 0
    /\ written[2] /\ status[2] = StatusNotFound

\* ------------------------------------------------------------ index and termination

\* Largest number of global middleware registered in the termination model.
MaxMwTerm == 2

\* The steps of the flow serving request r: the executor of ServeHTTP, the
\* executor of WithMiddleware and the units they invoke.
ServeTerm(r) ==
    \/ ExecInvoke(r)
    \/ ExecSkip(r)
    \/ Mark(r)
    \/ CallNext(r)
    \/ Stop(r)
    \/ Send(r)
    \/ WithEnter(r)
    \/ InnerInvoke(r)
    \/ InnerCallOuter(r)
    \/ UnitReturn(r)
    \/ Return(r)

\* One request on an App whose units return and call their continuation
\* never, once or twice.
NextTerm ==
    \/ ~serving /\ \E s \in {Wrap, Twice, StopNext} : Use(s, MaxMwTerm)
    \/ ~serving /\ \E s \in {Plain, HNext} : GET(PathA, s, 1)
    \/ ~serving /\ \E h \in {Plain, HNext}, ms \in InnerLists : GET(PathA, WithMiddleware(h, ms), 1)
    \/ Listen
    \/ Dispatch(1, "GET", PathA, FALSE)
    \/ ServeTerm(1)

\* ServeHTTP runs on the goroutine net/http started for the request, which
\* goes on while it has a step to take.
SpecTerm == Init /\ [][NextTerm]_vars /\ WF_vars(ServeTerm(1))

\* The positions in request r's stack of the units invoked by the executor
\* of ServeHTTP, and of those invoked by the executor of WithMiddleware.
OuterAt(r) == {k \in 1..Len(stack[r]) : ~IsInner(stack[r][k])}
InnerAt(r) == {k \in 1..Len(stack[r]) : IsInner(stack[r][k])}

\* The number of activations of ServeHTTP's exec that have not returned:
\* one per unit on the stack, and the call that has not yet reached its test.
ExecDepth(r) == Cardinality(OuterAt(r)) + (IF call[r] # NoCall THEN 1 ELSE 0)

IndexInBounds(r) ==
    /\ call[r] # NoCall => call[r] \in 0..mws[r].len
    /\ call[r] # NoCall =>
           call[r] = (IF stack[r] = <<>> THEN 0 ELSE Top(r).i + 1)
    /\ \A k \in OuterAt(r) : stack[r][k].i \in 0..(mws[r].len - 1)
    /\ \A k \in InnerAt(r) :
           /\ stack[r][k].j \in 0..(Len(stack[r][k].full) - 1)
           /\ stack[r][k].i \in 0..(mws[r].len - 1)

IndexIncreases(r) ==
    /\ \A a, b \in OuterAt(r) : a < b => stack[r][a].i < stack[r][b].i
    /\ \A a, b \in InnerAt(r) : a < b => stack[r][a].j < stack[r][b].j

DepthBounded(r) ==
    /\ ExecDepth(r) <= mws[r].len + 1
    /\ \A k \in InnerAt(r) : Cardinality(InnerAt(r)) <= Len(stack[r][k].full)

\* C38: exec is called with an index in 0..len(chain) and invokes a unit only
\* at an index below len(chain); the index strictly increases along nested
\* continuation calls, so that at most len(chain)+1 calls of exec are open at
\* a time; and a dispatched request whose units all return is served to the
\* end.
C38_IndexAndTermination ==
    /\ [](IndexInBounds(1) /\ IndexIncreases(1) /\ DepthBounded(1))
    /\ (pc[1] = "run") ~> (pc[1] = "done")

\* Every unit of a chain of three has called its continuation: the call
\* exec(len(chain)) is open inside three nested units.
C38_Witness ==
    /\ pc[1] = "run"
    /\ mws[1].len = 3
    /\ call[1] = mws[1].len
    /\ Len(stack[1]) = 3 /\ OuterAt(1) = 1..3
    /\ ExecDepth(1) = mws[1].len + 1

\* ------------------------------------------------------------ repeated matching

\* Largest number of routes registered in the repeated-matching model.
MaxRoutesRepeat == 2
\* Largest number of calls of matchRoute made by the first caller.
MaxCallsRepeat == 2

\* The patterns registered and the paths looked up in the repeated-matching
\* model.
RepeatPatterns == {PatParam, PatHead}
RepeatPaths == {<<"/", "a", "/", "b">>, <<"/", "a", "/", "c">>}

\* No call of matchRoute is in progress.
NoLookup == \A r \in Reqs : pc[r] # "match"

\* matchRoute(method, path) entered by caller r: the method's slice of routes
\* is read once, and the loop starts at its first route. The frame also
\* remembers the table the call was made on.
matchRouteBegin(r, method, path) ==
    /\ pc[r] \in {"idle", "matched"}
    /\ pc' = [pc EXCEPT ![r] = "match"]
    /\ reqMethod' = [reqMethod EXCEPT ![r] = method]
    /\ reqPath' = [reqPath EXCEPT ![r] = path]
    /\ stack' = [stack EXCEPT ![r] =
                    <<[rs |-> RoutesOf(routes, method), k |-> 1, table |-> routes]>>]
    /\ UNCHANGED appVars
    /\ UNCHANGED <<handler, ctxParams, mws, call, Stopped, ctxDone,
                   expiredAtStart, released, written, status, twStatus, trace>>
    /\ UNCHANGED storeVars
    /\ UNCHANGED envVars
    /\ UNCHANGED scopes

\* One iteration of matchRoute's loop that fills a params map kept between
\* calls, the one the other caller was last handed, instead of a new one.
matchRouteStepScratch(r) ==
    /\ pc[r] = "match"
    /\ LET f == stack[r][1]
           q == CHOOSE x \in Reqs : x # r
           scratch == IF ctxParams[q].isNil THEN EmptyMap ELSE ctxParams[q]
           return(h, params) ==
               /\ pc' = [pc EXCEPT ![r] = "matched"]
               /\ handler' = [handler EXCEPT ![r] = h]
               /\ ctxParams' = [ctxParams EXCEPT ![r] = params]
               /\ stack' = [stack EXCEPT ![r] = <<>>]
               /\ trace' = [trace EXCEPT ![r] =
                               Append(@, [method |-> reqMethod[r], path |-> reqPath[r],
                                          table |-> f.table, handler |-> h,
                                          params |-> params])]
           continue ==
               /\ stack' = [stack EXCEPT ![r][1].k = @ + 1]
               /\ UNCHANGED <<pc, handler, ctxParams, trace>>
       IN IF f.k > Len(f.rs) THEN return(NilFunc, NilMap)
          ELSE LET patternParts == splitPath(f.rs[f.k].pattern)
                   pathParts == splitPath(reqPath[r])
               IN IF Len(patternParts) # Len(pathParts) THEN continue
                  ELSE LET m == matchSegments(patternParts, pathParts, 1, scratch)
                       IN IF m.match THEN return(f.rs[f.k].handler, m.params)
                          ELSE continue
    /\ UNCHANGED appVars
    /\ UNCHANGED <<reqMethod, reqPath, mws, call, Stopped, ctxDone,
                   expiredAtStart, released, written, status, twStatus>>
    /\ UNCHANGED storeVars
    /\ UNCHANGED envVars
    /\ UNCHANGED scopes

\* One iteration of matchRoute's loop for caller r, or its end: past the last
\* route the call returns (nil, nil); a route of another length is skipped;
\* otherwise a new params map is made and the segments are compared, and the
\* call returns the route's handler and the map on a match and goes on to
\* the next route on a mismatch. A returned result is appended to the
\* caller's record of calls.
matchRouteStep(r) ==
    /\ pc[r] = "match"
    /\ LET f == stack[r][1]
           return(h, params) ==
               /\ pc' = [pc EXCEPT ![r] = "matched"]
               /\ handler' = [handler EXCEPT ![r] = h]
               /\ ctxParams' = [ctxParams EXCEPT ![r] = params]
               /\ stack' = [stack EXCEPT ![r] = <<>>]
               /\ trace' = [trace EXCEPT ![r] =
                               Append(@, [method |-> reqMethod[r], path |-> reqPath[r],
                                          table |-> f.table, handler |-> h,
                                          params |-> params])]
           continue ==
               /\ stack' = [stack EXCEPT ![r][1].k = @ + 1]
               /\ UNCHANGED <<pc, handler, ctxParams, trace>>
       IN IF f.k > Len(f.rs) THEN return(NilFunc, NilMap)
          ELSE LET patternParts == splitPath(f.rs[f.k].pattern)
                   pathParts == splitPath(reqPath[r])
               IN IF Len(patternParts) # Len(pathParts) THEN continue
                  ELSE LET m == matchSegments(patternParts, pathParts, 1, EmptyMap)
                       IN IF m.match THEN return(f.rs[f.k].handler, m.params)
                          ELSE continue
    /\ UNCHANGED appVars
    /\ UNCHANGED <<reqMethod, reqPath, mws, call, Stopped, ctxDone,
                   expiredAtStart, released, written, status, twStatus>>
    /\ UNCHANGED storeVars
    /\ UNCHANGED envVars
    /\ UNCHANGED scopes

\* Routes are registered under either method while no call is in progress:
\* before, between and after calls. The first caller calls matchRoute up to
\* MaxCallsRepeat times and the second once, for method GET with any path,
\* and the iterations of calls in progress interleave.
NextRepeat ==
    \/ NoLookup /\ \E m \in Methods, p \in RepeatPatterns :
                       addRoute(m, p, Plain, MaxRoutesRepeat)
    \/ Len(trace[1]) < MaxCallsRepeat
           /\ \E p \in RepeatPaths : matchRouteBegin(1, "GET", p)
    \/ trace[2] = <<>> /\ \E p \in RepeatPaths : matchRouteBegin(2, "GET", p)
    \/ \E r \in Reqs : matchRouteStep(r)

SpecRepeat == Init /\ [][NextRepeat]_vars

\* The calls of matchRoute that have returned: the method, path and table of
\* each with the handler and mapping it returned.
Returned == UNION {{trace[r][t] : t \in 1..Len(trace[r])} : r \in Reqs}

\* The routes of the list rs whose pattern agrees with the path.
AgreeingIn(rs, path) == {k \in 1..Len(rs) : Agree(rs[k].pattern, path)}

\* What the table determines for the call e, read off the table without the
\* loop: the earliest registered route of the method whose pattern agrees
\* with the path, with a mapping whose keys are that pattern's parameter
\* names, each bound to the path's segment; nil and nil when no pattern
\* agrees.
Determined(e) ==
    LET rs == RoutesOf(e.table, e.method)
        A == AgreeingIn(rs, e.path)
    IN IF A = {} THEN e.handler = NilFunc /\ e.params = NilMap
       ELSE LET k == CHOOSE x \in A : \A y \in A : x <= y
                P == rs[k].pattern
            IN /\ e.handler = rs[k].handler
               /\ ~e.params.isNil
               /\ DOMAIN e.params.kv = ParamNames(P)
               /\ \A i \in LastOfName(P) : Binds(e.params, P, e.path, i)

\* Calls e1 and e2 were made with the same method and path on the same table.
SameCall(e1, e2) ==
    e1.method = e2.method /\ e1.path = e2.path /\ e1.table = e2.table

\* The step is taken by a call of matchRoute of caller r: the call is entered,
\* runs an iteration, or returns.
LookupStep(r) ==
    /\ pc[r] = "match" \/ pc'[r] = "match"
    /\ <<pc[r], stack[r]>>' # <<pc[r], stack[r]>>

\* C22: calls of matchRoute with the same method and path on the same route
\* table return the same handler and the same parameter mapping, however
\* many calls are made, by whichever caller, and however their iterations
\* interleave with those of other calls: each result is the one the table
\* determines. No step of a call changes the route table, the middleware,
\* a result returned earlier, or another caller's call in progress.
C22_Deterministic ==
    /\ [](\A e1, e2 \in Returned :
             SameCall(e1, e2) => e1.handler = e2.handler /\ e1.params = e2.params)
    /\ [](\A e \in Returned : Determined(e))
    /\ [][\A r \in Reqs :
             LookupStep(r) =>
                 /\ routes' = routes /\ heap' = heap /\ middleware' = middleware
                 /\ SubSeq(trace'[r], 1, Len(trace[r])) = trace[r]
                 /\ \A q \in Reqs \ {r} :
                        <<pc[q], stack[q], trace[q], handler[q], ctxParams[q]>>'
                            = <<pc[q], stack[q], trace[q], handler[q], ctxParams[q]>>]_vars

\* The second caller looked up GET /a/b while /:z/c was the only GET route and
\* got nil and nil; /a/:x was then registered, and the first caller looked
\* up GET /a/b twice on that table: both calls passed over /:z/c, which had
\* bound z before its second segment differed, and returned the second
\* route's handler with x bound to b and nothing else.
C22_Witness ==
    /\ pc[1] = "matched" /\ pc[2] = "matched"
    /\ Len(trace[1]) = 2 /\ Len(trace[2]) = 1
    /\ Len(routes["GET"]) = 2
    /\ routes["GET"][1].pattern = PatHead /\ routes["GET"][2].pattern = PatParam
    /\ \A t \in 1..2 :
           /\ trace[1][t].method = "GET"
           /\ trace[1][t].path = <<"/", "a", "/", "b">>
           /\ trace[1][t].table = routes
           /\ trace[1][t].handler = routes["GET"][2].handler
           /\ trace[1][t].params.kv = [n \in {<<"x">>} |-> <<"b">>]
    /\ SameCall(trace[1][1], trace[1][2])
    /\ trace[2][1].path = <<"/", "a", "/", "b">>
    /\ trace[2][1].table["GET"] = <<routes["GET"][1]>>
    /\ trace[2][1].handler = NilFunc
    /\ trace[2][1].params = NilMap

====
